---------------------------- MODULE Spec2Model ----------------------------
(***************************************************************************)
(* Snap2Map calibration core.                                              *)
(*                                                                         *)
(* The repository holds two implementations of the robust fitter:          *)
(*   - the CommonJS one (transform.js / robust.js): computeSimilarity,     *)
(*     computeAffine, computeHomography, applyTransform, computeTransform, *)
(*     pickSubset, ransac, irls, calibrate.  Failures are exceptions.      *)
(*   - the ES-module one (transforms.js / robust.js / tps.js / model.js):  *)
(*     fitSimilarity, fitAffine, fitHomography, ransac, irls, RefinerTPS   *)
(*     and the CalibrationModel class.  Failures are null results.         *)
(* Both are modelled here, each by its own state machine.                  *)
(*                                                                         *)
(* A JavaScript Number is modelled by an exact rational <<n, d>> in lowest *)
(* terms with d > 0; <<0, 0>> is the non-finite value (NaN, +-Infinity).   *)
(***************************************************************************)
EXTENDS Integers, Sequences, FiniteSets, TLC

VARIABLES
    \* ---- calibrate(pairs, opts) of the CommonJS robust.js ----
    pairs,        \* the pairs argument: sequence of [world, pixel]
    opts,         \* the opts argument: [modelType, samples, threshold, delta, rng]
    pc,           \* position inside calibrate
    modelType,    \* calibrate's local modelType
    i,            \* ransac's loop counter
    bestModel,    \* ransac's bestModel
    bestInliers,  \* ransac's bestInliers
    ransacModel,  \* the model ransac returned
    result,       \* calibrate's return value [model, residuals]
    error,        \* message of the exception that left calibrate, "" if none
    calls,        \* log of the functions entered, in order
    lastFit,      \* outcome of the last sample's compute(subset)
    produced,     \* number of samples whose compute(subset) returned a model
    candidates,   \* the "inliers" of each of those samples, in the order drawn
    \* ---- a CalibrationModel object (ES modules) ----
    modelPairs,   \* this.pairs: sequence of [pixel, wgs84]
    activePairs,  \* this.activePairs
    transform,    \* this.transform: a Matrix or Null
    tpsRefiner,   \* this.tpsRefiner: a RefinerTPS or Null
    enuOrigin,    \* this.enuOrigin: a wgs84 position or Null
    inliers,      \* this.inliers: sequence of [pixel, enu]
    rmse,         \* this.rmse
    mathSvd,      \* whether the loaded math library has math.svd
    offered,      \* index in ModelPool of the last pair given to addPair
    ret,          \* the last method call: its name, how it returned, its
                  \* argument and result if it is a projection, and for
                  \* addPair and disableTPS the line written to the console
    fitKind,      \* fit's local kind in the last fit that chose one, else ""
    fitSamples,   \* the last fit's ransac: its samples whose fit was null, and was a model
    refits,       \* weighted re-fits done by the last fit's irls
    \* ---- one call of computeTransform, applyTransform, localRMSE or toPixel ----
    tfCall,       \* the function and its arguments: [fn, pairs, model, point]
    tfResult,     \* what the call returned or threw; Pending before it is made
    \* ---- the application: ui.js, pairState.js, map.js, db.js, gps.js ----
    appState,     \* ui.js appState: [isPairModeActive, activeView, currentMapId]
    pairState,    \* pairState.js state: [pixel, wgs84], each a point or Null
    onMapClickHandler, \* map.js: Null, or the handler and the view it was made for
    mapsStore,    \* the 'maps' object store: the record of each map id
    pairsStore,   \* the 'pairs' object store: the records added, in order
    saves,        \* the savePair calls made: position, arguments and locals of each
    watchId,      \* gps.js watchId: Null or the id of the watch
    geolocation,  \* navigator.geolocation: whether it is there, the watches
                  \* registered and the number of ids given out
    appRet,       \* the last handler or function run, what it returned or set,
                  \* and the view that was active when it ran
    originWrites, \* the enuOrigin values savePair has put, in order
    clicks,       \* the number of positions (clicks, fixes) delivered so far
    \* ---- which program the behaviour runs ----
    run

calVars == <<pairs, opts, pc, modelType, i, bestModel, bestInliers,
             ransacModel, result, error, calls, lastFit, produced,
             candidates>>

modelVars == <<modelPairs, activePairs, transform, tpsRefiner, enuOrigin, inliers,
               rmse, mathSvd, offered, ret, fitKind, fitSamples, refits>>

tfVars == <<tfCall, tfResult>>

appVars == <<appState, pairState, onMapClickHandler, mapsStore, pairsStore, saves,
             watchId, geolocation, appRet, originWrites, clicks>>

vars == <<calVars, modelVars, tfVars, appVars, run>>

-----------------------------------------------------------------------------
(* JavaScript numbers as exact rationals *)

Abs(a) == IF a < 0 THEN -a ELSE a

RECURSIVE Gcd(_, _)
Gcd(a, b) == IF b = 0 THEN a ELSE Gcd(b, a % b)

NaN == <<0, 0>>

IsFinite(p) == p[2] # 0

Rat(n, d) ==
    IF d = 0 THEN NaN
    ELSE LET g == Gcd(Abs(n), Abs(d))
         IN  IF d < 0 THEN <<(-n) \div g, (-d) \div g>>
                      ELSE <<n \div g, d \div g>>

R(n) == <<n, 1>>

RNeg(p) == <<-p[1], p[2]>>

RAdd(p, q) ==
    IF ~IsFinite(p) \/ ~IsFinite(q) THEN NaN
    ELSE LET g == Gcd(p[2], q[2])
         IN  Rat(p[1] * (q[2] \div g) + q[1] * (p[2] \div g), (p[2] \div g) * q[2])

RSub(p, q) == RAdd(p, RNeg(q))

RMul(p, q) ==
    IF ~IsFinite(p) \/ ~IsFinite(q) THEN NaN
    ELSE LET g1 == Gcd(Abs(p[1]), q[2])
             g2 == Gcd(Abs(q[1]), p[2])
         IN  <<(p[1] \div g1) * (q[1] \div g2), (p[2] \div g2) * (q[2] \div g1)>>

\* x / 0 is Infinity or NaN in JavaScript: the non-finite value here.
RDiv(p, q) ==
    IF ~IsFinite(p) \/ ~IsFinite(q) \/ q[1] = 0 THEN NaN
    ELSE IF q[1] < 0 THEN RMul(p, <<-q[2], -q[1]>>)
    ELSE RMul(p, <<q[2], q[1]>>)

RAbs(p) == <<Abs(p[1]), p[2]>>

\* Every comparison with a non-finite operand is false, as with NaN.
RLt(p, q) == IsFinite(p) /\ IsFinite(q) /\ p[1] * q[2] < q[1] * p[2]
RLe(p, q) == IsFinite(p) /\ IsFinite(q) /\ p[1] * q[2] <= q[1] * p[2]
RGt(p, q) == RLt(q, p)

\* Math.floor of a finite rational
Floor(p) == p[1] \div p[2]

\* Precision of a square root that is not rational: it is rounded down to a
\* multiple of 1/SqrtDen, or of a coarser unit when the radicand is large (a
\* double rounds too, at 2^-52 relative).
SqrtDen == 64

RECURSIVE ISqrtBits(_, _, _)
ISqrtBits(n, r, bit) ==
    IF bit = 0 THEN r
    ELSE IF (r + bit) <= 46340 /\ (r + bit) * (r + bit) <= n
         THEN ISqrtBits(n, r + bit, bit \div 2)
         ELSE ISqrtBits(n, r, bit \div 2)

\* floor(sqrt(n)) for 0 <= n < 2^31
ISqrt(n) == ISqrtBits(n, 0, 32768)

IsSquare(n) == ISqrt(n) * ISqrt(n) = n

\* The largest k among den, den/2, den/4, ..., 1 with n*k*k below 2^31
RECURSIVE SqrtScale(_, _)
SqrtScale(n, den) ==
    IF den <= 1 \/ n <= 2147483647 \div (den * den) THEN den
    ELSE SqrtScale(n, den \div 2)

\* Math.sqrt / Math.hypot: exact on squares of rationals, rounded down otherwise.
Sqrt(p) ==
    IF ~IsFinite(p) \/ p[1] < 0 THEN NaN
    ELSE IF IsSquare(p[1]) /\ IsSquare(p[2]) THEN <<ISqrt(p[1]), ISqrt(p[2])>>
    ELSE LET k == SqrtScale(p[1], SqrtDen)
         IN  Rat(ISqrt((p[1] * k * k) \div p[2]), k)

\* A sequence with every element evaluated
Tup(f) == SubSeq(f, 1, Len(f))

\* Points are <<x, y>> with rational coordinates.
Pt(x, y) == <<R(x), R(y)>>

-----------------------------------------------------------------------------
(* transform.js: solve, leastSquares *)

\* A thrown Error: every fallible function returns either its value or this.
Threw(msg) == [type |-> "threw", error |-> msg]

IsThrown(v) == v.type = "threw"

\* Math.abs(A[max][i]) < 1e-12.  A non-zero rational with a denominator below
\* 10^12 is never that small, so the test is "the pivot is zero"; a NaN pivot
\* passes it, as in JavaScript.
IsTinyPivot(p) == IsFinite(p) /\ p[1] = 0

\* The row among i..n with the largest |A[j][i]|, the first on ties.
RECURSIVE PivotRow(_, _, _, _)
PivotRow(A, col, j, max) ==
    IF j > Len(A) THEN max
    ELSE PivotRow(A, col, j + 1,
                  IF RGt(RAbs(A[j][col]), RAbs(A[max][col])) THEN j ELSE max)

\* "[A[i], A[max]] = [A[max], A[i]]" (b is the last column of A here)
SwapRows(A, col, max) ==
    Tup([r \in 1..Len(A) |-> IF r = col THEN A[max] ELSE IF r = max THEN A[col] ELSE A[r]])

\* "normalize row": the pivot row divided by its diagonal entry, from the
\* diagonal on
NormalizeRow(A, col) ==
    Tup([r \in 1..Len(A) |->
          IF r # col THEN A[r]
          ELSE Tup([k \in 1..Len(A[r]) |->
                     IF k < col THEN A[r][k] ELSE RDiv(A[r][k], A[r][col])])])

\* "eliminate": factor times the pivot row taken from every other row
EliminateColumn(A, col) ==
    Tup([r \in 1..Len(A) |->
          IF r = col THEN A[r]
          ELSE Tup([k \in 1..Len(A[r]) |->
                     IF k < col THEN A[r][k]
                     ELSE RSub(A[r][k], RMul(A[r][col], A[col][k]))])])

\* Gauss-Jordan elimination with partial pivoting from column col on; A is the
\* matrix with b as its last column.
RECURSIVE Eliminate(_, _)
RECURSIVE EliminateAt(_, _, _)
EliminateAt(A, col, max) ==
    IF IsTinyPivot(A[max][col]) THEN Threw("Singular matrix")
    ELSE Eliminate(EliminateColumn(NormalizeRow(SwapRows(A, col, max), col), col), col + 1)

Eliminate(A, col) ==
    IF col > Len(A)
    THEN [type |-> "solution", x |-> Tup([r \in 1..Len(A) |-> A[r][Len(A) + 1]])]
    ELSE EliminateAt(A, col, PivotRow(A, col, col + 1, col))

solve(A, b) == Eliminate(Tup([r \in 1..Len(A) |-> A[r] \o <<b[r]>>]), 1)

RECURSIVE NormalSum(_, _, _, _, _, _)
NormalSum(rows, rhs, weights, j, k, n) ==
    IF n = 0 THEN R(0)
    ELSE RAdd(NormalSum(rows, rhs, weights, j, k, n - 1),
              RMul(RMul(weights[n], rows[n][j]),
                   IF k = 0 THEN rhs[n] ELSE rows[n][k]))

\* Normal equations: A[j][k] = sum w*row[j]*row[k], b[j] = sum w*row[j]*rhs.
leastSquares(rows, rhs, weights) ==
    LET m == Len(rows[1])
        A == Tup([j \in 1..m |-> Tup([k \in 1..m |->
                    NormalSum(rows, rhs, weights, j, k, Len(rows))])])
        b == Tup([j \in 1..m |-> NormalSum(rows, rhs, weights, j, 0, Len(rows))])
    IN  solve(A, b)

\* "weights ? weights[i] : 1", each weight used for the x row and the y row;
\* an absent weights argument is <<>>.
RowWeights(weights, n) ==
    Tup([r \in 1..(2 * n) |-> IF weights = <<>> THEN R(1) ELSE weights[(r + 1) \div 2]])

-----------------------------------------------------------------------------
(* transform.js: the three model classes *)

\* A similarity model is kept as (a, b) = (scale*cos(angle), scale*sin(angle)):
\* Math.hypot/Math.atan2 followed by Math.cos/Math.sin give these back.
applySimilarity(model, w) ==
    << RAdd(RSub(RMul(model.a, w[1]), RMul(model.b, w[2])), model.tx),
       RAdd(RAdd(RMul(model.b, w[1]), RMul(model.a, w[2])), model.ty) >>

\* The model computeSimilarity returns for the solution sol, or the error of
\* leastSquares
similarityModel(sol) ==
    IF IsThrown(sol) THEN sol
    ELSE [type |-> "similarity", a |-> sol.x[1], b |-> sol.x[2],
          tx |-> sol.x[3], ty |-> sol.x[4]]

computeSimilarity(ps, weights) ==
    IF Len(ps) < 2 THEN Threw("Need at least 2 pairs")
    ELSE LET rows == Tup([r \in 1..(2 * Len(ps)) |->
                       LET p == ps[(r + 1) \div 2] IN
                       IF r % 2 = 1 THEN <<p.world[1], RNeg(p.world[2]), R(1), R(0)>>
                                    ELSE <<p.world[2], p.world[1], R(0), R(1)>>])
             rhs  == Tup([r \in 1..(2 * Len(ps)) |->
                       LET p == ps[(r + 1) \div 2] IN
                       IF r % 2 = 1 THEN p.pixel[1] ELSE p.pixel[2]])
         IN  similarityModel(leastSquares(rows, rhs, RowWeights(weights, Len(ps))))

applyAffine(model, w) ==
    << RAdd(RAdd(RMul(model.a, w[1]), RMul(model.b, w[2])), model.tx),
       RAdd(RAdd(RMul(model.c, w[1]), RMul(model.d, w[2])), model.ty) >>

\* An affine model with b and c exchanged (what C21 excludes)
affineModelTransposed(sol) ==
    IF IsThrown(sol) THEN sol
    ELSE [type |-> "affine", a |-> sol.x[1], b |-> sol.x[4], tx |-> sol.x[3],
          c |-> sol.x[2], d |-> sol.x[5], ty |-> sol.x[6]]

\* The model computeAffine returns for the solution sol, or the error of
\* leastSquares
affineModel(sol) ==
    IF IsThrown(sol) THEN sol
    ELSE [type |-> "affine", a |-> sol.x[1], b |-> sol.x[2], tx |-> sol.x[3],
          c |-> sol.x[4], d |-> sol.x[5], ty |-> sol.x[6]]

computeAffine(ps, weights) ==
    IF Len(ps) < 3 THEN Threw("Need at least 3 pairs")
    ELSE LET rows == Tup([r \in 1..(2 * Len(ps)) |->
                       LET p == ps[(r + 1) \div 2] IN
                       IF r % 2 = 1 THEN <<p.world[1], p.world[2], R(1), R(0), R(0), R(0)>>
                                    ELSE <<R(0), R(0), R(0), p.world[1], p.world[2], R(1)>>])
             rhs  == Tup([r \in 1..(2 * Len(ps)) |->
                       LET p == ps[(r + 1) \div 2] IN
                       IF r % 2 = 1 THEN p.pixel[1] ELSE p.pixel[2]])
         IN  affineModel(leastSquares(rows, rhs, RowWeights(weights, Len(ps))))

applyHomography(model, w) ==
    LET h   == model.h
        den == RAdd(RAdd(RMul(h[7], w[1]), RMul(h[8], w[2])), R(1))
    IN  << RDiv(RAdd(RAdd(RMul(h[1], w[1]), RMul(h[2], w[2])), h[3]), den),
           RDiv(RAdd(RAdd(RMul(h[4], w[1]), RMul(h[5], w[2])), h[6]), den) >>

\* "sol.push(1)"
homographyModel(sol) ==
    IF IsThrown(sol) THEN sol
    ELSE [type |-> "homography", h |-> sol.x \o <<R(1)>>]

computeHomography(ps, weights) ==
    IF Len(ps) < 4 THEN Threw("Need at least 4 pairs")
    ELSE LET rows == Tup([r \in 1..(2 * Len(ps)) |->
                       LET p == ps[(r + 1) \div 2]
                           X == p.world[1]
                           Y == p.world[2]
                       IN  IF r % 2 = 1
                           THEN <<X, Y, R(1), R(0), R(0), R(0),
                                  RMul(RNeg(p.pixel[1]), X), RMul(RNeg(p.pixel[1]), Y)>>
                           ELSE <<R(0), R(0), R(0), X, Y, R(1),
                                  RMul(RNeg(p.pixel[2]), X), RMul(RNeg(p.pixel[2]), Y)>>])
             rhs  == Tup([r \in 1..(2 * Len(ps)) |->
                       LET p == ps[(r + 1) \div 2] IN
                       IF r % 2 = 1 THEN p.pixel[1] ELSE p.pixel[2]])
         IN  homographyModel(leastSquares(rows, rhs, RowWeights(weights, Len(ps))))

\* A returned point {x, y}
Point(xy) == [type |-> "point", at |-> xy]

\* An applyTransform that returns the input point for a tag it does not know
\* (what C9 excludes)
applyTransformDefaulting(model, w) ==
    CASE model.type = "similarity" -> Point(applySimilarity(model, w))
      [] model.type = "affine"     -> Point(applyAffine(model, w))
      [] model.type = "homography" -> Point(applyHomography(model, w))
      [] OTHER                     -> Point(w)

\* The result of applyTransform: the returned point, or the thrown error.
applyTransform(model, w) ==
    CASE model.type = "similarity" -> Point(applySimilarity(model, w))
      [] model.type = "affine"     -> Point(applyAffine(model, w))
      [] model.type = "homography" -> Point(applyHomography(model, w))
      [] OTHER                     -> Threw("Unknown model type")

\* A computeTransform without its own check of the count (what C8 excludes)
computeTransformUnchecked(ps, weights) ==
    IF Len(ps) = 3 THEN computeAffine(ps, weights)
    ELSE IF Len(ps) >= 4 THEN computeHomography(ps, weights)
    ELSE computeSimilarity(ps, weights)

computeTransform(ps, weights) ==
    IF Len(ps) = 2 THEN computeSimilarity(ps, weights)
    ELSE IF Len(ps) = 3 THEN computeAffine(ps, weights)
    ELSE IF Len(ps) >= 4 THEN computeHomography(ps, weights)
    ELSE Threw("Insufficient pairs")

-----------------------------------------------------------------------------
(* robust.js (CommonJS): pickSubset, ransac, irls, calibrate *)

Kinds == {"similarity", "affine", "homography"}

\* MIN_PAIRS[modelType]; only read for a known modelType.
MIN_PAIRS(t) ==
    CASE t = "similarity" -> 2
      [] t = "affine"     -> 3
      [] t = "homography" -> 4

\* COMPUTE[modelType](pairs, weights); calling the undefined entry of an
\* unknown modelType is a TypeError.
COMPUTE(t, ps, weights) ==
    CASE t = "similarity" -> computeSimilarity(ps, weights)
      [] t = "affine"     -> computeAffine(ps, weights)
      [] t = "homography" -> computeHomography(ps, weights)
      [] OTHER            -> Threw("TypeError: compute is not a function")

\* Math.hypot(a.x - b.x, a.y - b.y)
distance(a, b) ==
    LET dx == RSub(a[1], b[1])
        dy == RSub(a[2], b[2])
    IN  Sqrt(RAdd(RMul(dx, dx), RMul(dy, dy)))

\* The Fisher-Yates pass of pickSubset from index i (1-based position pos)
\* down; rs[c] is the value of the c-th rng() call.
RECURSIVE Shuffle(_, _, _, _)
Shuffle(copy, pos, rs, c) ==
    IF pos < 2 THEN copy
    ELSE LET j == Floor(RMul(rs[c], R(pos))) + 1
         IN  Shuffle([copy EXCEPT ![pos] = copy[j], ![j] = copy[pos]], pos - 1, rs, c + 1)

\* A pickSubset that shuffles arr itself (what C24 excludes)
pickSubsetInPlace(arr, k, rs) ==
    LET copy == Shuffle(arr, Len(arr), rs, 1)
    IN  [type |-> "sample", result |-> SubSeq(copy, 1, IF k < Len(arr) THEN k ELSE Len(arr)), arr |-> copy]

\* pickSubset(arr, k, rng) for the values rs of its rng() calls: what it
\* returns, and arr after the call; the shuffle works on arr.slice()
pickSubsetOf(arr, k, rs) ==
    LET copy == Shuffle(arr, Len(arr), rs, 1)
    IN  [type |-> "sample", result |-> SubSeq(copy, 1, IF k < Len(arr) THEN k ELSE Len(arr)), arr |-> arr]

\* copy.slice(0, k); slice(0, undefined) of an unknown model type is the whole copy.
pickSubset(arr, t, rs) ==
    LET copy == Shuffle(arr, Len(arr), rs, 1)
    IN  IF t \in Kinds THEN SubSeq(copy, 1, IF MIN_PAIRS(t) < Len(arr) THEN MIN_PAIRS(t) ELSE Len(arr))
        ELSE copy

DefaultSamples == 150
DefaultThreshold == 40
DefaultDelta == 35

Samples(o)   == IF o.samples = <<>> THEN DefaultSamples ELSE o.samples[1]
Threshold(o) == IF o.threshold = <<>> THEN R(DefaultThreshold) ELSE o.threshold
Delta(o)     == IF o.delta = <<>> THEN R(DefaultDelta) ELSE o.delta

\* A consensus test that keeps the pairs beyond the threshold (what C18
\* excludes)
IsInlierInverted(model, p, threshold) ==
    RGt(distance(applyTransform(model, p.world).at, p.pixel), threshold)

\* ransac's consensus test for one pair
IsInlier(model, p, threshold) ==
    RLe(distance(applyTransform(model, p.world).at, p.pixel), threshold)

RECURSIVE Filter(_, _, _, _)
Filter(ps, model, threshold, n) ==
    IF n = 0 THEN <<>>
    ELSE LET rest == Filter(ps, model, threshold, n - 1)
         IN  IF IsInlier(model, ps[n], threshold) THEN Append(rest, ps[n]) ELSE rest

Inliers(ps, model, threshold) == Filter(ps, model, threshold, Len(ps))

\* The Huber weight of one residual
HuberWeight(r, delta) ==
    LET a == RAbs(r)
    IN  IF RLe(a, delta) THEN R(1) ELSE RDiv(delta, a)

\* Residuals reported last pair first (what C6 excludes)
ResidualsReversed(ps, model) ==
    Tup([n \in 1..Len(ps) |->
          distance(applyTransform(model, ps[Len(ps) + 1 - n].world).at,
                   ps[Len(ps) + 1 - n].pixel)])

Residuals(ps, model) ==
    Tup([n \in 1..Len(ps) |-> distance(applyTransform(model, ps[n].world).at, ps[n].pixel)])

HuberWeights(ps, model, delta) ==
    LET residuals == Residuals(ps, model)
    IN  Tup([n \in 1..Len(ps) |-> HuberWeight(residuals[n], delta)])

irls(ps, model, t, o) == COMPUTE(t, ps, HuberWeights(ps, model, Delta(o)))

NoModel == [type |-> "null"]
NoResult == [model |-> NoModel, residuals |-> <<>>]

-----------------------------------------------------------------------------
(* Inputs of calibrate *)

P(wx, wy, px, py) == [world |-> Pt(wx, wy), pixel |-> Pt(px, py)]

\* Three pairs of the identity map, one pair whose pixel is exactly 40 away
\* from it, and one pair that repeats the first world point one pixel off.
Pool == << P(0, 0, 0, 0), P(1, 0, 1, 0), P(0, 1, 0, 1), P(1, 1, 1, 41), P(0, 0, 0, 1) >>

MaxPairs == 4
MaxSamples == 2

RECURSIVE Pick(_, _)
Pick(S, n) ==
    IF n = 0 THEN <<>>
    ELSE IF n \in S THEN Append(Pick(S, n - 1), Pool[n]) ELSE Pick(S, n - 1)

PairLists == {Pick(S, Len(Pool)) : S \in {T \in SUBSET (1..Len(Pool)) : Cardinality(T) <= MaxPairs}}

RngValues == {R(0), Rat(1, 2), Rat(99, 100)}

\* The values of the rng() calls of one pickSubset on n elements
RngDraws(n) == IF n < 2 THEN {<<>>} ELSE [1..(n - 1) -> RngValues]

\* opts.rng: absent (<<>>, Math.random) or the function that always returns
\* the one value given, as "() => 0.99".
FixedRng == <<Rat(99, 100)>>

\* The values of the rng() calls of one pickSubset on n elements under opts o
Rng(o, n) ==
    IF o.rng = <<>> THEN RngDraws(n)
    ELSE IF n < 2 THEN {<<>>}
    ELSE {[k \in 1..(n - 1) |-> o.rng[1]]}

OptsSet == {o \in [modelType : {"", "similarity", "affine", "homography", "bogus"},
                   samples   : {<<n>> : n \in 0..MaxSamples},
                   threshold : {<<>>, R(1)},
                   delta     : {<<>>, R(0)},
                   rng       : {<<>>, FixedRng}] : o.threshold = <<>> \/ o.delta = <<>>}

\* calibrate(pairs, { rng: () => 0.99 }) and the same with a model type
Defaults(t) ==
    [modelType |-> t, samples |-> <<>>, threshold |-> <<>>, delta |-> <<>>, rng |-> FixedRng]

\* The pairs of robust.test.js: the corners of a square under the affine map
\* (x, y) -> (x + 0.2y + 5, -0.1x + 0.9y - 3), and an outlier last.
RobustTestPairs ==
    << P(0, 0, 5, -3), P(10, 0, 15, -4), P(0, 10, 7, 6), P(10, 10, 17, 5),
       P(20, 20, 400, -200) >>

\* Four pairs of the map (x, y) -> (50x, 50y) with an outlier first, 100
\* pixels from where that map puts it.
OutlierFirstPairs ==
    << P(-1, -1, -50, 50), P(0, 0, 0, 0), P(1, 0, 50, 0), P(0, 1, 0, 50), P(1, 1, 50, 50) >>

\* The same five pairs with the outlier last
OutlierLastPairs ==
    << P(0, 0, 0, 0), P(1, 0, 50, 0), P(0, 1, 0, 50), P(1, 1, 50, 50), P(-1, -1, -50, 50) >>

\* Three pairs of the identity and the outlier (20, 20) -> (400, -200)
FourPairs ==
    << P(0, 0, 0, 0), P(10, 0, 10, 0), P(0, 10, 0, 10), P(20, 20, 400, -200) >>

\* The same four pairs with the world coordinates in units of 10: the
\* fitted map is the one of FourPairs after that change of unit, and every
\* projected pixel, inlier and residual is the same.  (The exact homography
\* of FourPairs needs integers above 2^31.)
FourPairsWorldTenth ==
    << P(0, 0, 0, 0), P(1, 0, 10, 0), P(0, 1, 0, 10), P(2, 2, 400, -200) >>

\* The calls of calibrate made with those pairs
ScenarioCalls ==
    { <<RobustTestPairs, Defaults("")>>, <<OutlierFirstPairs, Defaults("")>>,
      <<OutlierLastPairs, Defaults("")>>,
      <<FourPairs, Defaults("affine")>>,
      <<FourPairsWorldTenth, Defaults("affine")>>, <<FourPairsWorldTenth, Defaults("")>> }

\* compute(subset) for every minimal subset ransac can draw from the pool:
\* COMPUTE evaluated once per (modelType, subset) instead of once per state.
Arrangements(k) == {s \in [1..k -> 1..Len(Pool)] : \A a, b \in 1..k : a # b => s[a] # s[b]}

ComputeKeys ==
    UNION {{<<t, Tup([n \in 1..MIN_PAIRS(t) |-> Pool[s[n]]])>> : s \in Arrangements(MIN_PAIRS(t))} :
           t \in Kinds}

ComputeTable == [key \in ComputeKeys |-> COMPUTE(key[1], key[2], <<>>)]

compute(t, subset) ==
    IF <<t, subset>> \in ComputeKeys THEN ComputeTable[<<t, subset>>]
    ELSE COMPUTE(t, subset, <<>>)

-----------------------------------------------------------------------------
(* transforms.js, robust.js (ES modules): fits that return a matrix or null *)

\* JavaScript null, for every value that is an object or null
Null == [type |-> "null"]

\* A 3x3 math.Matrix
Matrix(r1, r2, r3) == [type |-> "matrix", rows |-> <<r1, r2, r3>>]

\* H * [x, y, 1], divided by its third component
projectPoint(point, H) ==
    LET h == H.rows
        p1 == RAdd(RAdd(RMul(h[1][1], point[1]), RMul(h[1][2], point[2])), h[1][3])
        p2 == RAdd(RAdd(RMul(h[2][1], point[1]), RMul(h[2][2], point[2])), h[2][3])
        p3 == RAdd(RAdd(RMul(h[3][1], point[1]), RMul(h[3][2], point[2])), h[3][3])
    IN  <<RDiv(p1, p3), RDiv(p2, p3)>>

\* "weights && weights.length === pairs.length": otherwise the fit is unweighted.
FitWeights(ps, weights) == IF Len(weights) = Len(ps) THEN weights ELSE <<>>

\* The matrix fitAffine builds from the solution; the catch returns null.
affineMatrix(sol) ==
    IF IsThrown(sol) THEN Null
    ELSE Matrix(<<sol.x[1], sol.x[2], sol.x[3]>>,
                <<sol.x[4], sol.x[5], sol.x[6]>>,
                <<R(0), R(0), R(1)>>)

\* math.lusolve of the normal equations; a singular system throws and the
\* catch returns null.
fitAffine(ps, weights) ==
    IF Len(ps) < 3 THEN Null
    ELSE LET rows == Tup([r \in 1..(2 * Len(ps)) |->
                       LET p == ps[(r + 1) \div 2] IN
                       IF r % 2 = 1 THEN <<p.pixel[1], p.pixel[2], R(1), R(0), R(0), R(0)>>
                                    ELSE <<R(0), R(0), R(0), p.pixel[1], p.pixel[2], R(1)>>])
             rhs  == Tup([r \in 1..(2 * Len(ps)) |->
                       LET p == ps[(r + 1) \div 2] IN
                       IF r % 2 = 1 THEN p.enu[1] ELSE p.enu[2]])
         IN  affineMatrix(leastSquares(rows, rhs,
                                       RowWeights(FitWeights(ps, weights), Len(ps))))

\* fitSimilarity and fitHomography go through math.svd, which is not part of
\* the repository.  svdOk says whether the loaded math library provides it:
\* if not, the call throws inside the try and the fit returns null.  If it
\* does, the fit is the least-squares model of its class (the rotation, scale
\* and translation of Kabsch's method; the null vector of the DLT system),
\* and null when that model is not determined by the pairs.
similarityMatrix(sol) ==
    IF IsThrown(sol) THEN Null
    ELSE Matrix(<<sol.x[1], RNeg(sol.x[2]), sol.x[3]>>,
                <<sol.x[2], sol.x[1], sol.x[4]>>,
                <<R(0), R(0), R(1)>>)

fitSimilarity(ps, svdOk) ==
    IF Len(ps) < 2 \/ ~svdOk THEN Null
    ELSE LET rows == Tup([r \in 1..(2 * Len(ps)) |->
                       LET p == ps[(r + 1) \div 2] IN
                       IF r % 2 = 1 THEN <<p.pixel[1], RNeg(p.pixel[2]), R(1), R(0)>>
                                    ELSE <<p.pixel[2], p.pixel[1], R(0), R(1)>>])
             rhs  == Tup([r \in 1..(2 * Len(ps)) |->
                       LET p == ps[(r + 1) \div 2] IN
                       IF r % 2 = 1 THEN p.enu[1] ELSE p.enu[2]])
         IN  similarityMatrix(leastSquares(rows, rhs, RowWeights(<<>>, Len(ps))))

Squares(w) == Tup([n \in 1..Len(w) |-> RMul(w[n], w[n])])

homographyMatrix(sol) ==
    IF IsThrown(sol) THEN Null
    ELSE Matrix(<<sol.x[1], sol.x[2], sol.x[3]>>,
                <<sol.x[4], sol.x[5], sol.x[6]>>,
                <<sol.x[7], sol.x[8], R(1)>>)

\* The weighted DLT scales the two rows of a pair by its weight, so a pair
\* counts with the square of its weight.
fitHomography(ps, weights, svdOk) ==
    IF Len(ps) < 4 \/ ~svdOk THEN Null
    ELSE LET rows == Tup([r \in 1..(2 * Len(ps)) |->
                       LET p == ps[(r + 1) \div 2]
                           x == p.pixel[1]
                           y == p.pixel[2]
                       IN  IF r % 2 = 1
                           THEN <<x, y, R(1), R(0), R(0), R(0),
                                  RMul(RNeg(p.enu[1]), x), RMul(RNeg(p.enu[1]), y)>>
                           ELSE <<R(0), R(0), R(0), x, y, R(1),
                                  RMul(RNeg(p.enu[2]), x), RMul(RNeg(p.enu[2]), y)>>])
             rhs  == Tup([r \in 1..(2 * Len(ps)) |->
                       LET p == ps[(r + 1) \div 2] IN
                       IF r % 2 = 1 THEN p.enu[1] ELSE p.enu[2]])
         IN  homographyMatrix(leastSquares(rows, rhs,
                    RowWeights(Squares(FitWeights(ps, weights)), Len(ps))))

\* fitFns[kind].sampleSize of ransac
sampleSize(kind) ==
    CASE kind = "similarity" -> 2
      [] kind = "affine"     -> 3
      [] kind = "homography" -> 4

\* fitFns[kind].fit(pairs, weights)
fitFns(kind, ps, weights, svdOk) ==
    CASE kind = "similarity" -> fitSimilarity(ps, svdOk)
      [] kind = "affine"     -> fitAffine(ps, weights)
      [] kind = "homography" -> fitHomography(ps, weights, svdOk)

\* The pairs within the threshold of a model; ransac of the ES module
\* compares with "<".
RECURSIVE currentInliers(_, _, _, _)
currentInliers(ps, model, inlierThreshold, n) ==
    IF n = 0 THEN <<>>
    ELSE LET rest == currentInliers(ps, model, inlierThreshold, n - 1)
             err  == distance(projectPoint(ps[n].pixel, model), ps[n].enu)
         IN  IF RLt(err, inlierThreshold) THEN Append(rest, ps[n]) ELSE rest

-----------------------------------------------------------------------------
(* The pairs given to a CalibrationModel, and their fits *)

Q(px, py, lat, lon) ==
    [pixel |-> Pt(px, py), wgs84 |-> [type |-> "wgs84", lat |-> R(lat), lon |-> R(lon)]]

\* The four corners of a square under the map "east = x, north = y", its
\* centre exactly 40 north of where that map puts it, and the first corner
\* once more.
ModelPool == << Q(0, 0, 0, 0), Q(2, 0, 0, 2), Q(0, 2, 2, 0), Q(2, 2, 2, 2),
                Q(1, 1, 41, 1), Q(0, 0, 0, 0) >>

\* A pair whose wgs84 property is undefined
NoGeo == [pixel |-> Pt(1, 0), wgs84 |-> Null]

MaxModelPairs == 5
\* Geodetic positions are taken on a grid fine enough that the east and north
\* offsets from the origin are the differences of longitude and latitude.
projectToEnu(point, origin) ==
    <<RSub(point.lon, origin.lon), RSub(point.lat, origin.lat)>>

\* The enuPairs of fit(): the pairs projected with the model's origin
EnuPairs(ps, origin) ==
    Tup([n \in 1..Len(ps) |->
          [pixel |-> ps[n].pixel, enu |-> projectToEnu(ps[n].wgs84, origin)]])

\* The sub-sequence of ps at the indices in S
RECURSIVE SubsetOf(_, _, _)
SubsetOf(ps, S, n) ==
    IF n = 0 THEN <<>>
    ELSE IF n \in S THEN Append(SubsetOf(ps, S, n - 1), ps[n]) ELSE SubsetOf(ps, S, n - 1)

\* The unweighted fit of every pair list that a model fed from ModelPool can
\* ask for, evaluated once instead of once per state: the origin is the first
\* pair added, and every sample and inlier set is a sub-sequence of the pairs
\* added after it.
FitKeys ==
    UNION {{<<k, SubsetOf(EnuPairs(ModelPool, ModelPool[o].wgs84), S, Len(ModelPool))>> :
               S \in {T \in SUBSET (o..Len(ModelPool)) :
                         /\ Cardinality(T) <= MaxModelPairs
                         /\ IF k = "homography" THEN Cardinality(T) >= 4
                            ELSE Cardinality(T) = sampleSize(k)}} :
           o \in 1..Len(ModelPool), k \in Kinds}

FitTable == [key \in FitKeys |-> fitFns(key[1], key[2], <<>>, TRUE)]

\* fit(pairs, weights) of the given kind.  Weights that are all 1 give the
\* unweighted fit.
fit(kind, ps, weights, svdOk) ==
    IF /\ \A n \in 1..Len(weights) : weights[n] = R(1)
       /\ svdOk \/ kind = "affine"
       /\ <<kind, ps>> \in FitKeys
    THEN FitTable[<<kind, ps>>]
    ELSE fitFns(kind, ps, weights, svdOk)

MaxDraws == 2

\* "x in taken ? taken[x] : x" of the sparse array taken, kept as a
\* function on the indices that were assigned
TakenAt(taken, x) == IF x \in DOMAIN taken THEN taken[x] ELSE x

\* The while loop of getRandomSubset with n elements still to draw, for the
\* values rs of the Math.random() calls from the c-th on.  Indices are
\* those of JavaScript, from 0.
RECURSIVE SubsetLoop(_, _, _, _, _, _, _)
SubsetLoop(arr, res, n, len, taken, rs, c) ==
    IF n = 0 THEN res
    ELSE LET x == Floor(RMul(rs[c], R(len)))
         IN  SubsetLoop(arr, [res EXCEPT ![n] = arr[TakenAt(taken, x) + 1]], n - 1,
                        len - 1,
                        [d \in DOMAIN taken \cup {x} |->
                            IF d = x THEN TakenAt(taken, len - 1) ELSE taken[d]],
                        rs, c + 1)

\* getRandomSubset(arr, n) for the values rs of its Math.random() calls: what
\* it returns, and arr after the call, or the RangeError
getRandomSubsetOf(arr, n, rs) ==
    IF n > Len(arr) THEN Threw("getRandomSubset: n is larger than array length.")
    ELSE [type |-> "sample", result |-> SubsetLoop(arr, [pos \in 1..n |-> "empty"], n, Len(arr), <<>>, rs, 1),
          arr |-> arr]

\* What getRandomSubset(ps, k) can return, up to the order of the elements
\* (no fit depends on it).
getRandomSubset(ps, k) ==
    {SubsetOf(ps, S, Len(ps)) : S \in {T \in SUBSET (1..Len(ps)) : Cardinality(T) = k}}

\* The samples of one ransac run in the order of their first draw.  A sample
\* drawn again changes nothing (the best model is only replaced by one with
\* strictly more inliers), so the maxSamples draws are given by this list.
DrawLists(ps, k, maxSamples) ==
    LET bound == IF MaxDraws < maxSamples THEN MaxDraws ELSE maxSamples
    IN  UNION {{d \in [1..m -> getRandomSubset(ps, k)] :
                   \A a, b \in 1..m : a # b => d[a] # d[b]} : m \in 1..bound}

\* A choice that takes a homography from 3 pairs on (what C7 excludes)
KindForThreeUp(n) ==
    IF n >= 3 THEN "homography"
    ELSE "similarity"

\* fit's choice of the model class
KindFor(n) ==
    IF n >= 4 THEN "homography"
    ELSE IF n = 3 THEN "affine"
    ELSE "similarity"

ransacConfig == [inlierThreshold |-> R(40), maxSamples |-> 150]
irlsConfig == [huberDelta |-> R(35)]

\* The pair lists a model fed from ModelPool can hold when fit() fits them
ModelLists ==
    {EnuPairs(SubsetOf(ModelPool, L, Len(ModelPool)),
              ModelPool[CHOOSE o \in L : \A m \in L : o <= m].wgs84) :
        L \in {T \in SUBSET (1..Len(ModelPool)) :
                  Cardinality(T) >= 2 /\ Cardinality(T) <= MaxModelPairs}}

\* The inliers of every model that a sample of such a list gives, evaluated
\* once instead of once per state
InlierKeys ==
    UNION {{<<ps, fit(KindFor(Len(ps)), sample, <<>>, TRUE)>> :
               sample \in getRandomSubset(ps, sampleSize(KindFor(Len(ps))))} :
           ps \in ModelLists}

InlierTable ==
    [key \in {k \in InlierKeys : k[2] # Null} |->
        currentInliers(key[1], key[2], ransacConfig.inlierThreshold, Len(key[1]))]

\* ransac's inner loop over the pairs, for the model of a sample of ps
inliersOf(ps, model, inlierThreshold) ==
    IF inlierThreshold = ransacConfig.inlierThreshold /\ ps \in ModelLists
    THEN InlierTable[<<ps, model>>]
    ELSE currentInliers(ps, model, inlierThreshold, Len(ps))

\* "if (currentInliers.length > bestInliers.length)": the best model and
\* inliers after a sample whose model has the inliers cur
BetterOf(best, model, cur) ==
    IF Len(cur) > Len(best.inliers) THEN [model |-> model, inliers |-> cur] ELSE best

\* One iteration of ransac's loop, for the model fitted to the sample
AfterSample(best, model, ps, config) ==
    IF model = Null THEN best
    ELSE BetterOf(best, model, inliersOf(ps, model, config.inlierThreshold))

\* ransac's loop over the samples draws[1..n], which getRandomSubset returned
RECURSIVE ransacLoop(_, _, _, _, _, _)
ransacLoop(kind, ps, config, draws, n, svdOk) ==
    IF n = 0 THEN [model |-> Null, inliers |-> <<>>]
    ELSE AfterSample(ransacLoop(kind, ps, config, draws, n - 1, svdOk),
                     fit(kind, draws[n], <<>>, svdOk), ps, config)

\* "a || b" of two models
OrElse(a, b) == IF a # Null THEN a ELSE b

\* ransac after its loop: the re-fit on the best inliers, kept if it succeeds
Refit(kind, best, svdOk) ==
    [type    |-> "result",
     model   |-> OrElse(IF Len(best.inliers) >= sampleSize(kind)
                        THEN fit(kind, best.inliers, <<>>, svdOk) ELSE Null,
                        best.model),
     inliers |-> best.inliers]

\* ransac(kind, pairs, config): null, or {model, inliers} with a null model
\* when no sample produced one.
ransacESM(kind, ps, config, draws, svdOk) ==
    IF Len(ps) < sampleSize(kind) THEN Null
    ELSE Refit(kind, ransacLoop(kind, ps, config, draws, Len(draws), svdOk), svdOk)

\* The fit functions irls knows: fitFns of irls has no similarity entry.
IrlsKinds == {"affine", "homography"}

irlsESM(kind, inl, initialModel, config, svdOk) ==
    IF kind \notin IrlsKinds THEN initialModel
    ELSE LET weights == Tup([n \in 1..Len(inl) |->
                           HuberWeight(distance(projectPoint(inl[n].pixel, initialModel),
                                                inl[n].enu),
                                       config.huberDelta)])
         IN  OrElse(fit(kind, inl, weights, svdOk), initialModel)

\* The number of the samples draws[1..n] whose fit returned a model
RECURSIVE Fitted(_, _, _, _)
Fitted(k, draws, n, svdOk) ==
    IF n = 0 THEN 0
    ELSE Fitted(k, draws, n - 1, svdOk) + (IF fit(k, draws[n], <<>>, svdOk) = Null THEN 0 ELSE 1)

\* What ransac can return for the pairs ps of fit(), over the draws of
\* getRandomSubset, each with the number of distinct samples drawn and the
\* number of them that gave a model; with fewer pairs than a sample has,
\* ransac returns before it draws
RansacRuns(ps, svdOk) ==
    LET k == KindFor(Len(ps))
    IN  IF Len(ps) < sampleSize(k)
        THEN {[result |-> ransacESM(k, ps, ransacConfig, <<>>, svdOk),
               drawn  |-> 0,
               fitted |-> 0]}
        ELSE {[result |-> ransacESM(k, ps, ransacConfig, draws, svdOk),
               drawn  |-> Len(draws),
               fitted |-> Fitted(k, draws, Len(draws), svdOk)] :
                 draws \in DrawLists(ps, sampleSize(k), ransacConfig.maxSamples)}

\* The same, evaluated once per pair list instead of once per state
RansacTable == [key \in ModelLists \X BOOLEAN |-> RansacRuns(key[1], key[2])]

ransacRuns(ps, svdOk) ==
    IF ps \in ModelLists THEN RansacTable[<<ps, svdOk>>]
    ELSE RansacRuns(ps, svdOk)

-----------------------------------------------------------------------------
(* coords.js, tps.js and the matrix functions of the math library *)

Det2(a, b, c, d) == RSub(RMul(a, d), RMul(b, c))

det(H) ==
    LET h == H.rows
    IN  RAdd(RSub(RMul(h[1][1], Det2(h[2][2], h[2][3], h[3][2], h[3][3])),
                  RMul(h[1][2], Det2(h[2][1], h[2][3], h[3][1], h[3][3]))),
             RMul(h[1][3], Det2(h[2][1], h[2][2], h[3][1], h[3][2])))

\* math.inv: throws when the determinant is zero.
inv(H) ==
    LET h == H.rows
        d == det(H)
        c(r1, r2, c1, c2) == RDiv(Det2(h[r1][c1], h[r1][c2], h[r2][c1], h[r2][c2]), d)
    IN  IF ~IsFinite(d) \/ d[1] = 0
        THEN Threw("Cannot calculate inverse, determinant is zero")
        ELSE Matrix(<<c(2, 3, 2, 3), c(3, 1, 2, 3), c(1, 2, 2, 3)>>,
                    <<c(2, 3, 3, 1), c(3, 1, 3, 1), c(1, 2, 3, 1)>>,
                    <<c(2, 3, 1, 2), c(3, 1, 1, 2), c(1, 2, 1, 2)>>)

Collinear(a, b, c) ==
    RSub(RMul(RSub(b[1], a[1]), RSub(c[2], a[2])),
         RMul(RSub(b[2], a[2]), RSub(c[1], a[1])))[1] = 0

\* math.lusolve(L, Y) of RefinerTPS.fit throws exactly when L is singular.
\* L = [[K + lambda*I, P], [P', 0]] with the thin-plate kernel K, which is
\* positive definite on the null space of P' for distinct control points:
\* L is singular exactly when the control points are all on one line (P has
\* dependent columns), or when lambda is 0 and two control points coincide
\* (two equal rows).
TpsSingular(controlPoints, lambda) ==
    LET n == Len(controlPoints)
    IN  \/ \A a, b, c \in 1..n : Collinear(controlPoints[a], controlPoints[b], controlPoints[c])
        \/ /\ lambda[1] = 0
           /\ \E a, b \in 1..n : a # b /\ controlPoints[a] = controlPoints[b]

\* new RefinerTPS() followed by fit(controlPoints, targetPoints, lambda).  The
\* weights are the solution of the system: kept as the system they solve.
\* A null controlPoints is <<>>.
RefinerTPS(controlPoints, targetPoints, lambda) ==
    IF Len(controlPoints) < 3
    THEN [type |-> "RefinerTPS", controlPoints |-> <<>>, weights |-> Null]
    ELSE [type |-> "RefinerTPS", controlPoints |-> controlPoints,
          weights |-> IF TpsSingular(controlPoints, lambda) THEN Null
                      ELSE [type |-> "weights", targetPoints |-> targetPoints,
                            lambda |-> lambda]]

\* RefinerTPS.warp: null when the refiner holds no fitted spline
warp(refiner, point) ==
    IF refiner.weights = Null \/ refiner.controlPoints = <<>> THEN Null
    ELSE [type |-> "warped", by |-> refiner, point |-> point]

-----------------------------------------------------------------------------
(* CalibrationModel: its inputs, and the state of a new object *)

\* The lambda arguments of enableTPS: the default 1e-6, and 0
DefaultLambda == Rat(1, 1000000)
Lambdas == {DefaultLambda, R(0)}

\* The fields after the constructor
Constructed ==
    /\ modelPairs = <<>>
    /\ activePairs = <<>>
    /\ transform = Null
    /\ tpsRefiner = Null
    /\ enuOrigin = Null
    /\ inliers = <<>>
    /\ rmse = Null

NoCallYet ==
    /\ offered = 0
    /\ ret = [call |-> "none", value |-> "undefined", arg |-> <<>>, out |-> Null,
              log |-> ""]
    /\ fitKind = ""
    /\ fitSamples = [skipped |-> 0, fitted |-> 0]
    /\ refits = 0

Pending == [type |-> "pending"]

TransformIdle ==
    /\ tfCall = [fn |-> "none", pairs |-> <<>>, model |-> NoModel, point |-> <<>>]
    /\ tfResult = Pending

\* No handler or function of the application has run
NothingRun == [call |-> "none", value |-> "undefined", view |-> "photo"]

\* The modules of the application as loaded: appState of ui.js, state of
\* pairState.js, onMapClickHandler of map.js and watchId of gps.js; no
\* handler has run and no savePair call was made
ModulesLoaded ==
    /\ appState = [isPairModeActive |-> FALSE, activeView |-> "photo", currentMapId |-> Null]
    /\ pairState = [pixel |-> Null, wgs84 |-> Null]
    /\ onMapClickHandler = Null
    /\ pairsStore = <<>>
    /\ saves = <<>>
    /\ watchId = Null
    /\ appRet = NothingRun
    /\ originWrites = <<>>
    /\ clicks = 0

\* The application is loaded and left alone, in a browser with geolocation
\* and an empty database
AppIdle ==
    /\ ModulesLoaded
    /\ mapsStore = <<>>
    /\ geolocation = [supported |-> TRUE, watches |-> {}, given |-> 0]

CalIdle ==
    /\ pairs = <<>>
    /\ opts = [modelType |-> "", samples |-> <<0>>, threshold |-> <<>>, delta |-> <<>>,
               rng |-> <<>>]
    /\ pc = "idle"
    /\ modelType = ""
    /\ i = 0
    /\ bestModel = NoModel
    /\ bestInliers = <<>>
    /\ ransacModel = NoModel
    /\ result = NoResult
    /\ error = ""
    /\ calls = <<>>
    /\ lastFit = "none"
    /\ produced = 0
    /\ candidates = <<>>

-----------------------------------------------------------------------------
(* calibrate as a state machine *)

InitCal ==
    /\ run = "calibrate"
    /\ Constructed
    /\ NoCallYet
    /\ mathSvd = TRUE
    /\ TransformIdle
    /\ AppIdle
    /\ \E call \in (PairLists \X OptsSet) \cup ScenarioCalls :
          pairs = call[1] /\ opts = call[2]
    /\ pc = "start"
    /\ modelType = ""
    /\ i = 0
    /\ bestModel = NoModel
    /\ bestInliers = <<>>
    /\ ransacModel = NoModel
    /\ result = NoResult
    /\ error = ""
    /\ calls = <<>>
    /\ lastFit = "none"
    /\ produced = 0
    /\ candidates = <<>>

Throw(msg) ==
    /\ pc' = "threw"
    /\ error' = msg

\* A calibrate that always chooses by count (what C1 excludes)
SelectByCountOnly(ps, o) ==
    IF Len(ps) >= 4 THEN "homography"
    ELSE IF Len(ps) = 3 THEN "affine"
    ELSE "similarity"

\* calibrate up to the call of ransac
SelectModelType(ps, o) ==
    IF o.modelType # "" THEN o.modelType
    ELSE IF Len(ps) >= 4 THEN "homography"
    ELSE IF Len(ps) = 3 THEN "affine"
    ELSE "similarity"

CalibrateEnter ==
    /\ pc = "start"
    /\ calls' = Append(calls, "calibrate")
    /\ IF Len(pairs) < 2
       THEN /\ Throw("Need at least two pairs")
            /\ UNCHANGED modelType
       ELSE LET t == SelectModelType(pairs, opts)
            IN  /\ modelType' = t
                /\ IF t \in Kinds /\ Len(pairs) < MIN_PAIRS(t)
                   THEN Throw("Insufficient pairs for model")
                   ELSE pc' = "ransac" /\ UNCHANGED error
    /\ UNCHANGED <<pairs, opts, i, bestModel, bestInliers, ransacModel, result,
                   lastFit, produced, candidates, modelVars, tfVars, appVars, run>>

\* A loop body that lets a later sample with as many inliers replace the
\* best one (what C23 excludes)
ScoredLatest(model, found) ==
    /\ lastFit' = "model"
    /\ produced' = produced + 1
    /\ candidates' = Append(candidates, found)
    /\ UNCHANGED <<pc, error>>
    /\ IF Len(found) >= Len(bestInliers)
       THEN bestInliers' = found /\ bestModel' = model
       ELSE UNCHANGED <<bestModel, bestInliers>>

\* ransac's loop body after the consensus set found of a model is known
Scored(model, found) ==
    /\ lastFit' = "model"
    /\ produced' = produced + 1
    /\ candidates' = Append(candidates, found)
    /\ UNCHANGED <<pc, error>>
    /\ IF Len(found) > Len(bestInliers)
       THEN bestInliers' = found /\ bestModel' = model
       ELSE UNCHANGED <<bestModel, bestInliers>>

\* A loop body that lets the exception of compute(subset) leave ransac
\* (what C2 excludes)
TakeSampleAborting(model) ==
    IF IsThrown(model)
    THEN /\ lastFit' = "threw"
         /\ Throw(model.error)
         /\ UNCHANGED <<bestModel, bestInliers, produced, candidates>>
    ELSE Scored(model, Inliers(pairs, model, Threshold(opts)))

\* ransac's loop body, for what compute(subset) returned or threw
TakeSample(model) ==
    IF IsThrown(model)
    THEN /\ lastFit' = "threw"
         /\ UNCHANGED <<bestModel, bestInliers, produced, candidates, pc, error>>
    ELSE Scored(model, Inliers(pairs, model, Threshold(opts)))

\* One iteration of ransac's loop
RansacSample ==
    /\ pc = "ransac"
    /\ i < Samples(opts)
    /\ \E subset \in {pickSubset(pairs, modelType, rs) : rs \in Rng(opts, Len(pairs))} :
          TakeSample(compute(modelType, subset))
    /\ i' = i + 1
    /\ calls' = IF i = 0 THEN Append(calls, "ransac") ELSE calls
    /\ UNCHANGED <<pairs, opts, modelType, ransacModel, result,
                   modelVars, tfVars, appVars, run>>

\* "bestModel = compute(bestInliers); return {model, inliers}"
ReturnRefit(refit) ==
    IF IsThrown(refit)
    THEN Throw(refit.error) /\ UNCHANGED ransacModel
    ELSE /\ ransacModel' = refit
         /\ pc' = "irls"
         /\ UNCHANGED error

\* ransac after its loop: the failure, or the re-fit on the inliers
RansacReturn ==
    /\ pc = "ransac"
    /\ i >= Samples(opts)
    /\ calls' = IF i = 0 THEN Append(calls, "ransac") ELSE calls
    /\ IF bestModel = NoModel
       THEN Throw("RANSAC failed") /\ UNCHANGED ransacModel
       ELSE ReturnRefit(COMPUTE(modelType, bestInliers, <<>>))
    /\ UNCHANGED <<pairs, opts, modelType, i, bestModel, bestInliers, result,
                   lastFit, produced, candidates, modelVars, tfVars, appVars, run>>

\* calibrate with the model irls returned, or its exception
ReturnRefined(refined) ==
    IF IsThrown(refined)
    THEN Throw(refined.error) /\ UNCHANGED result
    ELSE /\ result' = [model |-> refined, residuals |-> Residuals(pairs, refined)]
         /\ pc' = "done"
         /\ UNCHANGED error

\* calibrate after ransac: irls, then the residuals of all pairs
CalibrateRefine ==
    /\ pc = "irls"
    /\ calls' = Append(calls, "irls")
    /\ ReturnRefined(irls(bestInliers, ransacModel, modelType, opts))
    /\ UNCHANGED <<pairs, opts, modelType, i, bestModel, bestInliers, ransacModel,
                   lastFit, produced, candidates, modelVars, tfVars, appVars, run>>

NextCal == CalibrateEnter \/ RansacSample \/ RansacReturn \/ CalibrateRefine

SpecCal == InitCal /\ [][NextCal]_vars

-----------------------------------------------------------------------------
(* CalibrationModel as a state machine: one action per method call *)

InitModel ==
    /\ run = "model"
    /\ CalIdle
    /\ TransformIdle
    /\ AppIdle
    /\ Constructed
    /\ NoCallYet
    /\ mathSvd \in BOOLEAN

Returned(call, value) ==
    [call |-> call, value |-> value, arg |-> <<>>, out |-> Null, log |-> ""]

\* The return of a projection method: its argument, and the point, the null
\* or the exception that came out
Projected(call, arg, out) ==
    [call |-> call,
     value |-> IF out = Null THEN "null" ELSE IF IsThrown(out) THEN "threw" ELSE "point",
     arg |-> arg, out |-> out, log |-> ""]

\* projectPoint(warpedPixel, this.transform) of a pixel the refiner warped
projectWarped(warpedPixel, tf) ==
    IF warpedPixel = Null
    THEN Threw("TypeError: Cannot read properties of null (reading 'x')")
    ELSE Point([warped |-> warpedPixel, by |-> tf])

\* A projectPixelToEnu that answers with the pixel itself while no transform
\* is fitted (what C11 excludes)
projectPixelToEnuDefaulting(tf, refiner, pixel) ==
    IF tf = Null THEN Point(pixel)
    ELSE IF refiner = Null THEN Point(projectPoint(pixel, tf))
    ELSE projectWarped(warp(refiner, pixel), tf)

\* projectPixelToEnu with this.transform = tf and this.tpsRefiner = refiner.
\* A point warped by a fitted spline is kept as the term that defines it;
\* projectPoint of the null that an unfitted refiner returns is a TypeError.
projectPixelToEnu(tf, refiner, pixel) ==
    IF tf = Null THEN Null
    ELSE IF refiner = Null THEN Point(projectPoint(pixel, tf))
    ELSE projectWarped(warp(refiner, pixel), tf)

\* getProjectionError(pairs): the root mean square of the distances between
\* projectPixelToEnu(p.pixel) and p.enu, kept as the term that defines it:
\* the base transform, the refiner the pixels are warped by (Null if none)
\* and the pairs.
getProjectionError(tf, refiner, ps) ==
    IF tf = Null \/ Len(ps) = 0 THEN Null
    ELSE IF \E n \in 1..Len(ps) : IsThrown(projectPixelToEnu(tf, refiner, ps[n].pixel))
    THEN Threw("TypeError: Cannot read properties of null (reading 'x')")
    ELSE [type |-> "rmse", base |-> tf, warp |-> refiner, pairs |-> ps]

\* An addPair in which the pair added last gives the origin (what C15 excludes)
OriginOfLatest(origin, pair) == pair.wgs84

\* "if (!this.enuOrigin) { this.enuOrigin = pair.wgs84; }"
OriginAfter(origin, pair) == IF origin = Null THEN pair.wgs84 ELSE origin

\* addPair(pair)
Push(pair) ==
    /\ modelPairs' = Append(modelPairs, pair)
    /\ activePairs' = Append(modelPairs, pair)
    /\ enuOrigin' = OriginAfter(enuOrigin, pair)
    /\ ret' = [Returned("addPair", "undefined") EXCEPT
                  !.log = IF enuOrigin = Null THEN "ENU origin set to the first pair:"
                          ELSE ""]

\* The pairs come from ModelPool in its order; the first pair of all can be
\* one without a geodetic coordinate.
AddPair ==
    /\ run = "model"
    /\ Len(modelPairs) < MaxModelPairs
    /\ \/ \E k \in (offered + 1)..Len(ModelPool) : Push(ModelPool[k]) /\ offered' = k
       \/ modelPairs = <<>> /\ Push(NoGeo) /\ UNCHANGED offered
    /\ UNCHANGED <<transform, tpsRefiner, inliers, rmse, mathSvd, fitKind, fitSamples,
                   refits, calVars, tfVars, appVars, run>>

\* "this.rmse = this.getProjectionError(this.inliers)" and the return of the
\* method, or the exception of getProjectionError
StoreRmse(call, value, e) ==
    IF IsThrown(e)
    THEN ret' = Returned(call, "threw") /\ UNCHANGED rmse
    ELSE ret' = Returned(call, value) /\ rmse' = e

\* fit from line 76 on, with the model irls returned
FitStore(k, inl, finalModel) ==
    /\ transform' = finalModel
    /\ inliers' = inl
    /\ refits' = IF k \in IrlsKinds THEN 1 ELSE 0
    /\ StoreRmse("fit", "true", getProjectionError(finalModel, tpsRefiner, inl))

\* fit after ransac returned ransacResult
FitFrom(k, ransacResult) ==
    IF ransacResult = Null \/ ransacResult.model = Null
    THEN /\ transform' = Null
         /\ ret' = Returned("fit", "false")
         /\ UNCHANGED <<inliers, rmse, refits>>
    ELSE FitStore(k, ransacResult.inliers,
                  irlsESM(k, ransacResult.inliers, ransacResult.model, irlsConfig, mathSvd))

\* projectToEnu(p.wgs84, this.enuOrigin) reads p.wgs84.lat: a TypeError when
\* the pair has no wgs84.
HasGeo(ps) == \A n \in 1..Len(ps) : ps[n].wgs84 # Null

Fit ==
    /\ run = "model"
    /\ IF Len(activePairs) < 2
       THEN /\ ret' = Returned("fit", "false")
            /\ UNCHANGED <<transform, inliers, rmse, fitKind, fitSamples, refits>>
       ELSE IF ~HasGeo(activePairs)
       THEN /\ ret' = Returned("fit", "threw")
            /\ UNCHANGED <<transform, inliers, rmse, fitKind, fitSamples, refits>>
       ELSE \E run1 \in ransacRuns(EnuPairs(activePairs, enuOrigin), mathSvd) :
               /\ fitKind' = KindFor(Len(activePairs))
               /\ fitSamples' = [skipped |-> run1.drawn - run1.fitted,
                                 fitted  |-> run1.fitted]
               /\ FitFrom(KindFor(Len(activePairs)), run1.result)
    /\ UNCHANGED <<modelPairs, activePairs, tpsRefiner, enuOrigin, mathSvd, offered,
                   calVars, tfVars, appVars, run>>

\* enableTPS from line 157 on, with the refiner after its fit
AttachRefiner(refiner) ==
    /\ tpsRefiner' = refiner
    /\ StoreRmse("enableTPS", "undefined", getProjectionError(transform, refiner, inliers))

\* enableTPS from line 154 on
EnableWith(invTransform, lambda) ==
    IF IsThrown(invTransform)
    THEN /\ ret' = Returned("enableTPS", "threw")
         /\ UNCHANGED <<tpsRefiner, rmse>>
    ELSE AttachRefiner(RefinerTPS(Tup([n \in 1..Len(inliers) |-> inliers[n].pixel]),
                                  Tup([n \in 1..Len(inliers) |->
                                        projectPoint(inliers[n].enu, invTransform)]),
                                  lambda))

\* An enableTPS that only asks for a base transform (what C13 excludes)
EnableTPSAnyInliers ==
    /\ run = "model"
    /\ \E lambda \in Lambdas :
          IF transform = Null
          THEN /\ ret' = Returned("enableTPS", "undefined")
               /\ UNCHANGED <<tpsRefiner, rmse>>
          ELSE EnableWith(inv(transform), lambda)
    /\ UNCHANGED <<modelPairs, activePairs, transform, enuOrigin, inliers, mathSvd,
                   offered, fitKind, fitSamples, refits, calVars, tfVars, appVars, run>>

EnableTPS ==
    /\ run = "model"
    /\ \E lambda \in Lambdas :
          IF transform = Null \/ Len(inliers) < 3
          THEN /\ ret' = Returned("enableTPS", "undefined")
               /\ UNCHANGED <<tpsRefiner, rmse>>
          ELSE EnableWith(inv(transform), lambda)
    /\ UNCHANGED <<modelPairs, activePairs, transform, enuOrigin, inliers, mathSvd,
                   offered, fitKind, fitSamples, refits, calVars, tfVars, appVars, run>>

\* A disableTPS that drops the refiner and keeps the rmse measured through
\* it (what C12 excludes)
DisableTPSKeepingRmse ==
    /\ run = "model"
    /\ IF tpsRefiner = Null
       THEN /\ ret' = Returned("disableTPS", "undefined")
            /\ UNCHANGED <<tpsRefiner, rmse>>
       ELSE /\ tpsRefiner' = Null
            /\ ret' = [Returned("disableTPS", "undefined") EXCEPT !.log = "RMSE without TPS:"]
            /\ UNCHANGED rmse
    /\ UNCHANGED <<modelPairs, activePairs, transform, enuOrigin, inliers, mathSvd,
                   offered, fitKind, fitSamples, refits, calVars, tfVars, appVars, run>>

\* this.rmse.toFixed(2) of a null rmse is a TypeError, after the assignments.
DisableTPS ==
    /\ run = "model"
    /\ IF tpsRefiner = Null
       THEN /\ ret' = Returned("disableTPS", "undefined")
            /\ UNCHANGED <<tpsRefiner, rmse>>
       ELSE LET e == getProjectionError(transform, Null, inliers)
            IN  /\ tpsRefiner' = Null
                /\ rmse' = e
                /\ ret' = [Returned("disableTPS",
                                    IF e = Null THEN "threw" ELSE "undefined") EXCEPT
                              !.log = IF e = Null THEN "Disabling TPS."
                                      ELSE "RMSE without TPS:"]
    /\ UNCHANGED <<modelPairs, activePairs, transform, enuOrigin, inliers, mathSvd,
                   offered, fitKind, fitSamples, refits, calVars, tfVars, appVars, run>>

\* The arguments of the projection methods
LatLons == {[type |-> "wgs84", lat |-> R(0), lon |-> R(0)],
            [type |-> "wgs84", lat |-> R(3), lon |-> R(1)]}
Pixels == {Pt(0, 0), Pt(1, 2)}

\* projectPoint(enuPoint, invTransform), or the exception of math.inv
projectInverse(enuPoint, invTransform) ==
    IF IsThrown(invTransform) THEN invTransform
    ELSE Point(projectPoint(enuPoint, invTransform))

\* A projectLatLonToPixel whose result depends on the refiner (what C14
\* excludes): with a refiner attached it answers with a control point.
projectLatLonToPixelRefined(tf, refiner, origin, latLon) ==
    IF tf = Null \/ origin = Null THEN Null
    ELSE IF refiner = Null \/ refiner.controlPoints = <<>>
    THEN projectInverse(projectToEnu(latLon, origin), inv(tf))
    ELSE Point(refiner.controlPoints[1])

\* projectLatLonToPixel with this.transform = tf, this.tpsRefiner = refiner
\* and this.enuOrigin = origin: the refiner is not read.
projectLatLonToPixel(tf, refiner, origin, latLon) ==
    IF tf = Null \/ origin = Null THEN Null
    ELSE projectInverse(projectToEnu(latLon, origin), inv(tf))

ProjectLatLonToPixel ==
    /\ run = "model"
    /\ \E latLon \in LatLons :
          ret' = Projected("projectLatLonToPixel", latLon,
                           projectLatLonToPixel(transform, tpsRefiner, enuOrigin, latLon))
    /\ UNCHANGED <<modelPairs, activePairs, transform, tpsRefiner, enuOrigin, inliers,
                   rmse, mathSvd, offered, fitKind, fitSamples, refits, calVars, tfVars,
                   appVars, run>>

ProjectPixelToEnu ==
    /\ run = "model"
    /\ \E pixel \in Pixels :
          ret' = Projected("projectPixelToEnu", pixel,
                           projectPixelToEnu(transform, tpsRefiner, pixel))
    /\ UNCHANGED <<modelPairs, activePairs, transform, tpsRefiner, enuOrigin, inliers,
                   rmse, mathSvd, offered, fitKind, fitSamples, refits, calVars, tfVars,
                   appVars, run>>

NextModel ==
    \/ AddPair
    \/ Fit
    \/ EnableTPS
    \/ DisableTPS
    \/ ProjectLatLonToPixel
    \/ ProjectPixelToEnu

SpecModel == InitModel /\ [][NextModel]_vars

-----------------------------------------------------------------------------
(* ErrorMetrics and PositionProjector *)

\* A returned Number
Num(q) == [type |-> "number", value |-> q]

\* localRMSE's two loops: num and den after the first n pairs, with
\* weights[i] = 1 / (Math.hypot(px.x - proj.x, px.y - proj.y) + 1)
RECURSIVE WeightedSums(_, _, _, _)
WeightedSums(model, ps, px, n) ==
    IF n = 0 THEN [num |-> R(0), den |-> R(0)]
    ELSE LET s == WeightedSums(model, ps, px, n - 1)
             proj == applyTransform(model, ps[n].world).at
             res == distance(proj, ps[n].pixel)
             w == RDiv(R(1), RAdd(distance(px, proj), R(1)))
         IN  [num |-> RAdd(s.num, RMul(RMul(w, res), res)), den |-> RAdd(s.den, w)]

\* A mean that divides by the number of pairs, not by the sum of the weights
\* (what C20 excludes)
meanSquareByCount(sums, n) == RDiv(sums.num, R(n))

\* "num / den"
meanSquare(sums, n) == RDiv(sums.num, sums.den)

\* ErrorMetrics.localRMSE(px) of new ErrorMetrics(model, ps): a Number, or
\* the exception of applyTransform
localRMSE(model, ps, px) ==
    IF Len(ps) = 0 THEN Num(R(0))
    ELSE IF IsThrown(applyTransform(model, ps[1].world))
    THEN applyTransform(model, ps[1].world)
    ELSE Num(Sqrt(meanSquare(WeightedSums(model, ps, px, Len(ps)), Len(ps))))

\* "pos.accuracy || 0": a missing accuracy is <<>>
Accuracy(accuracy) == IF accuracy = <<>> THEN R(0) ELSE accuracy

\* A toPixel that reports the accuracy of the fix alone (what C19 excludes)
FixOfAccuracy(px, sigmaMap, acc) ==
    IF IsThrown(sigmaMap) THEN sigmaMap
    ELSE [type |-> "fix", px |-> px, sigmaMap |-> sigmaMap.value, sigmaTotal |-> RAbs(acc)]

\* toPixel from "const sigmaTotal" on, or the exception of localRMSE
Fix(px, sigmaMap, acc) ==
    IF IsThrown(sigmaMap) THEN sigmaMap
    ELSE [type |-> "fix", px |-> px, sigmaMap |-> sigmaMap.value,
          sigmaTotal |-> Sqrt(RAdd(RMul(acc, acc), RMul(sigmaMap.value, sigmaMap.value)))]

\* PositionProjector.toPixel(pos).  calibrated: setCalibration was called;
\* px: what this.model.projectLatLonToPixel(pos.lat, pos.lon) returned;
\* metrics: this.model.metrics, Null or [model, pairs].
toPixel(calibrated, metrics, px, accuracy) ==
    IF ~calibrated THEN Threw("Calibration not set")
    ELSE Fix(px,
             IF metrics = Null THEN Num(R(0)) ELSE localRMSE(metrics.model, metrics.pairs, px),
             Accuracy(accuracy))

\* The model of error-metrics.test.js: the identity as a similarity
TestModel ==
    [type |-> "similarity", a |-> R(1), b |-> R(0), c |-> R(0), d |-> R(1),
     tx |-> R(0), ty |-> R(0), h |-> <<R(1), R(0), R(0), R(0), R(1), R(0), R(0), R(0), R(1)>>]

\* The pairs of error-metrics.test.js: three exact ones and the outlier
\* (20, 20) -> (25, 40)
TestPairs ==
    << P(0, 0, 0, 0), P(10, 0, 10, 0), P(0, 10, 0, 10), P(20, 20, 25, 40) >>

\* The maps (x, y) -> (kx, ky), k = 1 or 2, in each class, and under a tag
\* applyTransform does not know
MetricModels ==
    {[TestModel EXCEPT !.type = t, !.a = R(k), !.d = R(k), !.h[1] = R(k), !.h[5] = R(k)] :
        t \in Kinds \cup {"bogus"}, k \in {1, 2}}

\* Pairs whose world and pixel points are multiples of (3, 4), so that every
\* distance between them, and to the query points, is a whole number: two
\* exact pairs, one 5 and one 10 pixels off, and one that the map with k = 2
\* fits.
MetricPool ==
    << P(0, 0, 0, 0), P(3, 4, 3, 4), P(3, 4, 6, 8), P(6, 8, 12, 16), P(6, 8, 0, 0) >>

MetricPairLists == {SubsetOf(MetricPool, S, Len(MetricPool)) : S \in SUBSET (1..Len(MetricPool))}

MetricPoints == {Pt(0, 0), Pt(3, 4)}

Accuracies == {<<>>, R(0), R(5)}

\* The metrics a model can carry, and the points asked about
MetricsAt ==
    {[pairs |-> ps, model |-> m, point |-> px] :
        ps \in MetricPairLists, m \in MetricModels, px \in MetricPoints}
    \cup
    {[pairs |-> SubSeq(TestPairs, 1, n), model |-> TestModel, point |-> Pt(5, 5)] :
        n \in {3, 4}}

MetricsCalls ==
    {[fn |-> "localRMSE", pairs |-> c.pairs, model |-> c.model, point |-> c.point] :
        c \in MetricsAt}
    \cup
    {[fn |-> "toPixel", pairs |-> c.pairs, model |-> c.model, point |-> c.point,
      calibrated |-> TRUE, metrics |-> TRUE, accuracy |-> acc] :
        c \in {x \in MetricsAt : Len(x.pairs) \in {0, 3, 4}}, acc \in Accuracies}
    \cup
    {[fn |-> "toPixel", pairs |-> <<>>, model |-> NoModel, point |-> px, calibrated |-> c,
      metrics |-> FALSE, accuracy |-> acc] :
        px \in MetricPoints, c \in BOOLEAN, acc \in Accuracies}

-----------------------------------------------------------------------------
(* coords.js: WGS84 <-> ECEF <-> ENU *)

\* JavaScript evaluates an argument before the call: CHOOSE r \in {F(x) : x \in {e}}
\* below is F(e) with e evaluated first.

\* An angle is kept as the direction <<x, y>> = (cos, sin) it points to, in
\* lowest integer terms.  "deg * (Math.PI / 180)" and "rad * (180 / Math.PI)"
\* change the unit of an angle and not its direction.
Dir(x, y) ==
    LET g == Gcd(Abs(x), Abs(y))
    IN  IF g = 0 THEN <<1, 0>> ELSE <<x \div g, y \div g>>

\* Math.cos and Math.sin
cos(v) == RDiv(R(v[1]), Sqrt(R(v[1] * v[1] + v[2] * v[2])))

sin(v) == RDiv(R(v[2]), Sqrt(R(v[1] * v[1] + v[2] * v[2])))

\* Math.atan2(y, x) of two finite Numbers
atan2(y, x) == Dir(x[1] * y[2], y[1] * x[2])

\* Lengths are in units of the semi-major axis, a = 6378137.0 m
SemiMajorAxis == R(1)

\* e2 = f * (2 - f) with f = 1 / 298.257223563, to 4 places
e2 == Rat(67, 10000)

\* N = a / Math.sqrt(1 - e2 * sinLat * sinLat)
PrimeVertical(sinLat) ==
    RDiv(SemiMajorAxis, Sqrt(RSub(R(1), RMul(e2, RMul(sinLat, sinLat)))))

\* b * b / (a * a) with b = a * (1 - f) is 1 - e2
wgs84ToEcef(lat, lon, alt) ==
    LET N == PrimeVertical(sin(lat))
    IN  [x |-> RMul(RMul(RAdd(N, alt), cos(lat)), cos(lon)),
         y |-> RMul(RMul(RAdd(N, alt), cos(lat)), sin(lon)),
         z |-> RMul(RAdd(RMul(RSub(R(1), e2), N), alt), sin(lat))]

\* a*x + b*y + c*z
Lin3(a, x, b, y, c, z) == RAdd(RAdd(RMul(a, x), RMul(b, y)), RMul(c, z))

ecefToEnu(ecef, origin) ==
    LET originEcef == wgs84ToEcef(origin.lat, origin.lon, origin.alt)
        dx == RSub(ecef.x, originEcef.x)
        dy == RSub(ecef.y, originEcef.y)
        dz == RSub(ecef.z, originEcef.z)
        cosLat == cos(origin.lat)
        sinLat == sin(origin.lat)
        cosLon == cos(origin.lon)
        sinLon == sin(origin.lon)
    IN  [x |-> Lin3(RNeg(sinLon), dx, cosLon, dy, R(0), dz),
         y |-> Lin3(RNeg(RMul(sinLat, cosLon)), dx, RNeg(RMul(sinLat, sinLon)), dy,
                    cosLat, dz),
         z |-> Lin3(RMul(cosLat, cosLon), dx, RMul(cosLat, sinLon), dy, sinLat, dz)]

\* "{ ...origin, alt: 0 }"
AtSeaLevel(origin) == [lat |-> origin.lat, lon |-> origin.lon, alt |-> R(0)]

\* projectToEnu of coords.js, through ECEF: the up component is dropped
projectToEnuEcef(point, origin) ==
    CHOOSE r \in {[x |-> enuPoint.x, y |-> enuPoint.y] :
                  enuPoint \in {ecefToEnu(ecef, AtSeaLevel(origin)) :
                                    ecef \in {wgs84ToEcef(point.lat, point.lon, R(0))}}} : TRUE

enuToEcef(enu, origin) ==
    LET originEcef == wgs84ToEcef(origin.lat, origin.lon, origin.alt)
        cosLat == cos(origin.lat)
        sinLat == sin(origin.lat)
        cosLon == cos(origin.lon)
        sinLon == sin(origin.lon)
    IN  [x |-> RAdd(originEcef.x,
                    Lin3(RNeg(sinLon), enu.x, RNeg(RMul(sinLat, cosLon)), enu.y,
                         RMul(cosLat, cosLon), enu.z)),
         y |-> RAdd(originEcef.y,
                    Lin3(cosLon, enu.x, RNeg(RMul(sinLat, sinLon)), enu.y,
                         RMul(cosLat, sinLon), enu.z)),
         z |-> RAdd(originEcef.z, Lin3(R(0), enu.x, cosLat, enu.y, sinLat, enu.z))]

\* The latitude after n more rounds of the loop of ecefToWgs84
RECURSIVE Latitude(_, _, _, _)
Latitude(lat, z, p, n) ==
    IF n = 0 THEN lat
    ELSE LET N == PrimeVertical(sin(lat))
             alt == RSub(RDiv(p, cos(lat)), N)
         IN  CHOOSE r \in {Latitude(next, z, p, n - 1) :
                           next \in {atan2(z, RMul(p, RSub(R(1), RDiv(RMul(e2, N),
                                                                      RAdd(N, alt)))))}} : TRUE

\* The loop's "i < 5"
Iterations == 5

ecefToWgs84(ecef) ==
    CHOOSE r \in {[type |-> "wgs84",
                   lat |-> CHOOSE l \in {Latitude(lat, ecef.z, p, Iterations) :
                                             lat \in {atan2(ecef.z, RMul(p, RSub(R(1), e2)))}} : TRUE,
                   lon |-> atan2(ecef.y, ecef.x)] :
                  p \in {Sqrt(RAdd(RMul(ecef.x, ecef.x), RMul(ecef.y, ecef.y)))}} : TRUE

\* unprojectFromEnu: z (up) is taken to be 0
unprojectFromEnu(point, origin) ==
    CHOOSE r \in {ecefToWgs84(ecef) :
                  ecef \in {enuToEcef([x |-> point.x, y |-> point.y, z |-> R(0)],
                                      AtSeaLevel(origin))}} : TRUE

\* The angle with tan(angle / 2) = 1/n, n > 1, turned by the quarter turns q
HalfTan(n, q) ==
    CASE q = 0 -> Dir(n * n - 1, 2 * n)
      [] q = 1 -> Dir(-2 * n, n * n - 1)
      [] q = 2 -> Dir(1 - n * n, -2 * n)
      [] q = 3 -> Dir(2 * n, 1 - n * n)

\* Differences of longitude: 0, and the angles with tan(angle / 2) = 1/n,
\* which on the equator are 64 km (n = 200), 128 km, 319 km and 1272 km
\* (n = 10), to the east and, for 319 km, to the west
HalfTans == {200, 100, 40, 10}

\* The positions of the round trips: origin and point on the equator, where the
\* square roots of wgs84ToEcef are rational
RoundTrips ==
    {[origin |-> [lat |-> Dir(1, 0), lon |-> Dir(1, 0)],
      point |-> [lat |-> Dir(1, 0), lon |-> lon]] :
        lon \in {HalfTan(n, 0) : n \in HalfTans} \cup {Dir(1, 0), Dir(1599, -80)}}
    \cup
    {[origin |-> [lat |-> Dir(1, 0), lon |-> Dir(0, 1)],
      point |-> [lat |-> Dir(1, 0), lon |-> lon]] :
        lon \in {HalfTan(n, 1) : n \in HalfTans} \cup {Dir(0, 1)}}

-----------------------------------------------------------------------------
(* computeTransform, applyTransform, localRMSE and toPixel called directly *)

\* Type tags: the three known ones, and tags applyTransform's switch has no
\* case for ("undefined" is a model without a type property).
Tags == Kinds \cup {"bogus", "Affine", "undefined"}

\* Homography coefficients h[1..9]: the identity, and one whose denominator
\* is 0 on the line x = 1.
Homographies ==
    { <<R(1), R(0), R(0), R(0), R(1), R(0), R(0), R(0), R(1)>>,
      <<R(2), R(1), R(3), R(0), R(1), R(1), R(-1), R(0), R(1)>> }

ApplyModels ==
    {[type |-> t, a |-> R(a), b |-> R(b), c |-> R(c), d |-> R(1),
      tx |-> R(tx), ty |-> R(1), h |-> h] :
        t \in Tags, a \in {1, 2}, b \in {0, 1}, c \in {0, 2}, tx \in {0, 3}, h \in Homographies}

ApplyPoints == {Pt(0, 0), Pt(1, 2), Pt(-3, 1)}

\* Known models to recover, as in the tests of transform.js: of each class
\* the identity and maps with rotation, shear or a denominator that varies,
\* and one map of rank 1 in the affine and the homography class
KnownModels ==
    {[type |-> "similarity", a |-> R(m[1]), b |-> R(m[2]), tx |-> R(m[3]), ty |-> R(m[4])] :
        m \in {<<1, 0, 0, 0>>, <<0, 2, 3, -1>>, <<3, 4, -2, 5>>}}
    \cup
    {[type |-> "affine", a |-> R(m[1]), b |-> R(m[2]), c |-> R(m[3]), d |-> R(m[4]),
      tx |-> R(m[5]), ty |-> R(m[6])] :
        m \in {<<1, 0, 0, 1, 0, 0>>, <<2, 1, 0, 1, 3, 1>>, <<1, 2, 3, 4, 5, 6>>,
               <<1, 1, 1, 1, 0, 0>>}}
    \cup
    {[type |-> "homography", h |-> [n \in 1..9 |-> R(m[n])]] :
        m \in {<<1, 0, 0, 0, 1, 0, 0, 0, 1>>, <<1, 0, 0, 0, 1, 0, 1, 0, 1>>,
               <<2, 1, 3, 0, 1, 1, 1, 1, 1>>, <<1, 1, 0, 1, 1, 0, 0, 0, 1>>}}

\* World points to generate pairs from
WorldPool == << Pt(0, 0), Pt(1, 0), Pt(0, 1), Pt(1, 1), Pt(2, 0), Pt(2, 3) >>

\* The extra pairs given beyond the minimum count
MaxExtra == 1

\* The lists of world points for a class, of up to extra points above its
\* minimum: the points of WorldPool at increasing positions, and one list
\* with each point twice
WorldLists(t, extra) ==
    {SubsetOf(WorldPool, S, Len(WorldPool)) :
        S \in {T \in SUBSET (1..Len(WorldPool)) :
                  /\ Cardinality(T) >= MIN_PAIRS(t)
                  /\ Cardinality(T) <= MIN_PAIRS(t) + extra}}
    \cup {[n \in 1..MIN_PAIRS(t) |-> WorldPool[(n + 1) \div 2]]}

\* The homographies that mix x and y are fitted to 4 pairs only: the normal
\* equations of 5 of their pairs leave the 32-bit integers
ExtraFor(model) ==
    IF model.type = "homography" /\ model.h[2] # R(0) THEN 0 ELSE MaxExtra

\* "{ world: w, pixel: applyTransform(model, w) }" for each w
PairsOf(model, ws) ==
    [n \in 1..Len(ws) |-> [world |-> ws[n], pixel |-> applyTransform(model, ws[n]).at]]

TransformCalls ==
    {[fn |-> "computeTransform", pairs |-> ps, model |-> NoModel, point |-> <<>>] :
        ps \in PairLists}
    \cup
    {[fn |-> "applyTransform", pairs |-> <<>>, model |-> m, point |-> w] :
        m \in ApplyModels, w \in ApplyPoints}
    \cup
    UNION {{[fn |-> "pickSubset", pairs |-> [n \in 1..len |-> n], model |-> NoModel,
             point |-> <<>>, k |-> drawn, rs |-> rs] :
               drawn \in 0..len, rs \in RngDraws(len)} : len \in 0..MaxPairs}
    \cup
    UNION {UNION {{[fn |-> "getRandomSubset", pairs |-> [n \in 1..len |-> n],
                    model |-> NoModel, point |-> <<>>, k |-> drawn, rs |-> rs] :
                      rs \in [1..(IF drawn > len THEN 0 ELSE drawn) -> RngValues]} :
                  drawn \in 0..(len + 1)} :
           len \in 0..MaxPairs}
    \cup
    {[fn |-> "roundTrip", pairs |-> <<>>, model |-> NoModel, point |-> c.point,
      origin |-> c.origin] : c \in RoundTrips}
    \cup
    UNION {{[fn |-> "compute", pairs |-> PairsOf(m, ws), model |-> m, point |-> <<>>] :
               ws \in WorldLists(m.type, ExtraFor(m))} : m \in KnownModels}

InitTransform ==
    /\ run = "transform"
    /\ CalIdle
    /\ AppIdle
    /\ Constructed
    /\ NoCallYet
    /\ mathSvd = TRUE
    /\ tfCall \in TransformCalls \cup MetricsCalls
    /\ tfResult = Pending

ComputeTransformCall ==
    /\ run = "transform"
    /\ tfCall.fn = "computeTransform"
    /\ tfResult = Pending
    /\ tfResult' = computeTransform(tfCall.pairs, <<>>)
    /\ UNCHANGED <<tfCall, calVars, modelVars, appVars, run>>

ApplyTransformCall ==
    /\ run = "transform"
    /\ tfCall.fn = "applyTransform"
    /\ tfResult = Pending
    /\ tfResult' = applyTransform(tfCall.model, tfCall.point)
    /\ UNCHANGED <<tfCall, calVars, modelVars, appVars, run>>

\* computeSimilarity, computeAffine or computeHomography on the pairs made
\* of a known model
ComputeCall ==
    /\ run = "transform"
    /\ tfCall.fn = "compute"
    /\ tfResult = Pending
    /\ tfResult' = COMPUTE(tfCall.model.type, tfCall.pairs, <<>>)
    /\ UNCHANGED <<tfCall, calVars, modelVars, appVars, run>>

\* pickSubset(arr, k, rng) on an array of the positions 1..n
PickSubsetCall ==
    /\ run = "transform"
    /\ tfCall.fn = "pickSubset"
    /\ tfResult = Pending
    /\ tfResult' = pickSubsetOf(tfCall.pairs, tfCall.k, tfCall.rs)
    /\ UNCHANGED <<tfCall, calVars, modelVars, appVars, run>>

\* getRandomSubset(arr, n) on an array of the positions 1..n
GetRandomSubsetCall ==
    /\ run = "transform"
    /\ tfCall.fn = "getRandomSubset"
    /\ tfResult = Pending
    /\ tfResult' = getRandomSubsetOf(tfCall.pairs, tfCall.k, tfCall.rs)
    /\ UNCHANGED <<tfCall, calVars, modelVars, appVars, run>>

\* unprojectFromEnu(projectToEnu(point, origin), origin)
RoundTripCall ==
    /\ run = "transform"
    /\ tfCall.fn = "roundTrip"
    /\ tfResult = Pending
    /\ \E enu \in {projectToEnuEcef(tfCall.point, tfCall.origin)} :
           tfResult' = unprojectFromEnu(enu, tfCall.origin)
    /\ UNCHANGED <<tfCall, calVars, modelVars, appVars, run>>

LocalRMSECall ==
    /\ run = "transform"
    /\ tfCall.fn = "localRMSE"
    /\ tfResult = Pending
    /\ tfResult' = localRMSE(tfCall.model, tfCall.pairs, tfCall.point)
    /\ UNCHANGED <<tfCall, calVars, modelVars, appVars, run>>

ToPixelCall ==
    /\ run = "transform"
    /\ tfCall.fn = "toPixel"
    /\ tfResult = Pending
    /\ tfResult' = toPixel(tfCall.calibrated,
                           IF tfCall.metrics
                           THEN [type |-> "ErrorMetrics", model |-> tfCall.model,
                                 pairs |-> tfCall.pairs]
                           ELSE Null,
                           tfCall.point, tfCall.accuracy)
    /\ UNCHANGED <<tfCall, calVars, modelVars, appVars, run>>

NextTransform ==
    \/ ComputeTransformCall
    \/ ApplyTransformCall
    \/ ComputeCall
    \/ PickSubsetCall
    \/ GetRandomSubsetCall
    \/ RoundTripCall
    \/ LocalRMSECall
    \/ ToPixelCall

SpecTransform == InitTransform /\ [][NextTransform]_vars

-----------------------------------------------------------------------------
(* The application: pair mode (ui.js, map.js, pairState.js) and savePair
   (db.js), one action per handler or await *)

MaxSaves == 2
MaxClicks == 3
MaxWatches == 40

\* The maps in the 'maps' store, and the ids setCurrentMap is called with
StoredMaps == {"m1"}
MapIds == StoredMaps \cup {"gone"}

\* Where a click or a fix can be
Places == {"A", "B"}

\* The position object of the n-th event: a new object each time
LatLng(n, at) == [type |-> "latlng", id |-> n, at |-> at]

\* saveMap's record has no enuOrigin
InitApp ==
    /\ run = "app"
    /\ CalIdle
    /\ TransformIdle
    /\ Constructed
    /\ NoCallYet
    /\ mathSvd = TRUE
    /\ ModulesLoaded
    /\ mapsStore = [m \in StoredMaps |-> [id |-> m, enuOrigin |-> Null]]
    /\ geolocation \in {[supported |-> b, watches |-> {}, given |-> 0] : b \in BOOLEAN}

Ran(call, value) == [call |-> call, value |-> value, view |-> appState.activeView]

\* A map id held in appState.currentMapId, which starts as null
Id(mapId) == [type |-> "id", id |-> mapId]

\* setCurrentMap(mapId)
SetCurrentMap ==
    /\ run = "app"
    /\ \E mapId \in MapIds :
          /\ appState' = [appState EXCEPT !.currentMapId = Id(mapId)]
          /\ appRet' = Ran("setCurrentMap", mapId)
    /\ UNCHANGED <<pairState, onMapClickHandler, mapsStore, pairsStore, saves, watchId,
                   geolocation, originWrites, clicks, calVars, modelVars, tfVars, run>>

\* enableMarkerPlacement(map, activeView): the handler closes over the
\* activeView argument
enableMarkerPlacement(activeView) == [type |-> "handler", activeView |-> activeView]

\* The activeView onMapClick is called with by the registered handler
ClosedOver(handler, activeView) == handler.activeView

\* enterPairMode: the click on the add-pair button
EnterPairMode ==
    /\ run = "app"
    /\ IF appState.isPairModeActive
       THEN UNCHANGED <<appState, onMapClickHandler>>
       ELSE /\ appState' = [appState EXCEPT !.isPairModeActive = TRUE]
            /\ onMapClickHandler' = enableMarkerPlacement(appState.activeView)
    /\ appRet' = Ran("enterPairMode", "undefined")
    /\ UNCHANGED <<pairState, mapsStore, pairsStore, saves, watchId, geolocation,
                   originWrites, clicks, calVars, modelVars, tfVars, run>>

\* pairState.resetActivePair()
resetActivePair == [pixel |-> Null, wgs84 |-> Null]

\* exitPairMode: the click on the cancel button of the pair mode bar
ExitPairMode ==
    /\ run = "app"
    /\ appState.isPairModeActive
    /\ appState' = [appState EXCEPT !.isPairModeActive = FALSE]
    /\ pairState' = resetActivePair
    /\ onMapClickHandler' = Null
    /\ appRet' = Ran("exitPairMode", "undefined")
    /\ UNCHANGED <<mapsStore, pairsStore, saves, watchId, geolocation, originWrites,
                   clicks, calVars, modelVars, tfVars, run>>

\* The footer tabs
TabIds == {"tab-photo", "tab-osm", "tab-refine"}

\* id.replace('tab-', '')
ViewOfTab(id) == IF id = "tab-photo" THEN "photo" ELSE "osm"

\* handleTabClick
HandleTabClick ==
    /\ run = "app"
    /\ \E id \in TabIds :
          /\ appState' = IF id \in {"tab-photo", "tab-osm"}
                         THEN [appState EXCEPT !.activeView = ViewOfTab(id)]
                         ELSE appState
          /\ appRet' = [call |-> "handleTabClick", value |-> id,
                        view |-> appState'.activeView]
    /\ UNCHANGED <<pairState, onMapClickHandler, mapsStore, pairsStore, saves, watchId,
                   geolocation, originWrites, clicks, calVars, modelVars, tfVars, run>>

\* onMapClick(e, activeView)
onMapClick(latlng, activeView) ==
    IF activeView = "photo" THEN [pairState EXCEPT !.pixel = latlng]
    ELSE [pairState EXCEPT !.wgs84 = latlng]

\* A click on the map while a click handler is registered: the value of the
\* step is the side of the pending pair it set.
MapClick ==
    /\ run = "app"
    /\ onMapClickHandler # Null
    /\ clicks < MaxClicks
    /\ clicks' = clicks + 1
    /\ \E at \in Places :
          pairState' = onMapClick(LatLng(clicks + 1, at),
                                  ClosedOver(onMapClickHandler, appState.activeView))
    /\ appRet' = Ran("onMapClick",
                     IF ClosedOver(onMapClickHandler, appState.activeView) = "photo"
                     THEN "pixel" ELSE "wgs84")
    /\ UNCHANGED <<appState, onMapClickHandler, mapsStore, pairsStore, saves, watchId,
                   geolocation, originWrites, calVars, modelVars, tfVars, run>>

\* useMyPosition: the click on "My Pos" of the pair mode bar, with the fix
\* getCurrentPosition resolves with; without geolocation it rejects and the
\* catch shows a banner.
UseMyPosition ==
    /\ run = "app"
    /\ appState.isPairModeActive
    /\ clicks < MaxClicks
    /\ IF geolocation.supported
       THEN /\ clicks' = clicks + 1
            /\ \E at \in Places :
                  pairState' = [pairState EXCEPT !.wgs84 = LatLng(clicks + 1, at)]
            /\ appRet' = Ran("useMyPosition", "wgs84")
       ELSE /\ appRet' = Ran("useMyPosition", "banner")
            /\ UNCHANGED <<pairState, clicks>>
    /\ UNCHANGED <<appState, onMapClickHandler, mapsStore, pairsStore, saves, watchId,
                   geolocation, originWrites, calVars, modelVars, tfVars, run>>

\* pairState.isPairComplete()
isPairComplete == pairState.pixel # Null /\ pairState.wgs84 # Null

\* pairState.getActivePairData()
getActivePairData == [pixel |-> pairState.pixel, wgs84 |-> pairState.wgs84]

\* store.get(mapId) of the 'maps' store: the record, or undefined
getMap(mapId) == IF mapId \in DOMAIN mapsStore THEN mapsStore[mapId] ELSE Null

\* savePair(mapId, pairData) up to its first await.  The read-only
\* transaction of getMap is created here: it sees the puts of the
\* transactions created before it and of no later one.
savePair(mapId, pairData) ==
    [pc |-> "getMap", mapId |-> mapId, pairData |-> pairData, map |-> getMap(mapId)]

\* confirmAndSavePair up to its await: the click on the confirm button of
\* the pair mode bar
ConfirmAndSavePair ==
    /\ run = "app"
    /\ appState.isPairModeActive
    /\ IF ~isPairComplete
       THEN appRet' = Ran("confirmAndSavePair", "alert") /\ UNCHANGED saves
       ELSE IF appState.currentMapId = Null
       THEN appRet' = Ran("confirmAndSavePair", "undefined") /\ UNCHANGED saves
       ELSE /\ Len(saves) < MaxSaves
            /\ saves' = Append(saves, savePair(appState.currentMapId.id, getActivePairData))
            /\ appRet' = Ran("confirmAndSavePair", "saving")
    /\ UNCHANGED <<appState, pairState, onMapClickHandler, mapsStore, pairsStore, watchId,
                   geolocation, originWrites, clicks, calVars, modelVars, tfVars, run>>

\* projectToEnu(pairData.wgs84, map.enuOrigin), kept as the term that defines it
Enu(wgs84, origin) == [type |-> "enu", point |-> wgs84.at, origin |-> origin.at]

\* The record savePair adds for the call s with its local map
newPair(s, map) ==
    [pairId |-> Len(pairsStore) + 1, mapId |-> s.mapId, pixel |-> s.pairData.pixel,
     wgs84 |-> s.pairData.wgs84, enu |-> Enu(s.pairData.wgs84, map.enuOrigin)]

\* savePair from "const enu" to the store.add of its last promise
AddPairRecord(n, map) ==
    /\ pairsStore' = Append(pairsStore, newPair(saves[n], map))
    /\ saves' = [saves EXCEPT ![n].pc = "add", ![n].map = map]

\* The promise of getMap resolves in the n-th savePair: the map is missing
\* (the call rejects and confirmAndSavePair's catch logs it), or it has no
\* origin yet (the origin is set on the local copy and put), or it has one.
GetMapResolved ==
    /\ run = "app"
    /\ \E n \in 1..Len(saves) :
          /\ saves[n].pc = "getMap"
          /\ IF saves[n].map = Null
             THEN /\ saves' = [saves EXCEPT ![n].pc = "rejected"]
                  /\ UNCHANGED <<mapsStore, originWrites, pairsStore>>
             ELSE IF saves[n].map.enuOrigin = Null
             THEN LET map == [saves[n].map EXCEPT !.enuOrigin = saves[n].pairData.wgs84]
                  IN  /\ saves' = [saves EXCEPT ![n].pc = "updateMap", ![n].map = map]
                      /\ mapsStore' = [mapsStore EXCEPT ![map.id] = map]
                      /\ originWrites' = Append(originWrites, map.enuOrigin)
                      /\ UNCHANGED pairsStore
             ELSE /\ AddPairRecord(n, saves[n].map)
                  /\ UNCHANGED <<mapsStore, originWrites>>
    /\ appRet' = Ran("savePair", "getMap")
    /\ UNCHANGED <<appState, pairState, onMapClickHandler, watchId, geolocation, clicks,
                   calVars, modelVars, tfVars, run>>

\* The promise of updateMap resolves in the n-th savePair
UpdateMapResolved ==
    /\ run = "app"
    /\ \E n \in 1..Len(saves) :
          /\ saves[n].pc = "updateMap"
          /\ AddPairRecord(n, saves[n].map)
    /\ appRet' = Ran("savePair", "updateMap")
    /\ UNCHANGED <<appState, pairState, onMapClickHandler, mapsStore, watchId, geolocation,
                   originWrites, clicks, calVars, modelVars, tfVars, run>>

\* The promise of savePair resolves: confirmAndSavePair goes on after its
\* await and resets the pending pair
AddResolved ==
    /\ run = "app"
    /\ \E n \in 1..Len(saves) :
          /\ saves[n].pc = "add"
          /\ saves' = [saves EXCEPT ![n].pc = "resolved"]
    /\ pairState' = resetActivePair
    /\ appRet' = Ran("confirmAndSavePair", "saved")
    /\ UNCHANGED <<appState, onMapClickHandler, mapsStore, pairsStore, watchId, geolocation,
                   originWrites, clicks, calVars, modelVars, tfVars, run>>

-----------------------------------------------------------------------------
(* gps.js: the position watch *)

\* The module is loaded in a browser with or without navigator.geolocation
InitGps ==
    /\ run = "gps"
    /\ CalIdle
    /\ TransformIdle
    /\ Constructed
    /\ NoCallYet
    /\ mathSvd = TRUE
    /\ ModulesLoaded
    /\ mapsStore = <<>>
    /\ geolocation \in {[supported |-> b, watches |-> {}, given |-> 0] : b \in BOOLEAN}

\* The id watchPosition returns for the n-th watch
Watch(n) == [type |-> "watch", id |-> n]

\* A startWatchingPosition that does not look at watchId
startWatchingPositionAgain(supported, id) == supported

\* startWatchingPosition: whether it goes on to watchPosition
startWatchingPosition(supported, id) == supported /\ id = Null

\* startWatchingPosition(successCallback, errorCallback)
StartWatchingPosition ==
    /\ run = "gps"
    /\ geolocation.given < MaxWatches
    /\ IF startWatchingPosition(geolocation.supported, watchId)
       THEN /\ watchId' = Watch(geolocation.given + 1)
            /\ geolocation' = [geolocation EXCEPT
                                  !.given = @ + 1,
                                  !.watches = @ \cup {Watch(geolocation.given + 1)}]
            /\ appRet' = Ran("startWatchingPosition", "true")
       ELSE /\ appRet' = Ran("startWatchingPosition", "false")
            /\ UNCHANGED <<watchId, geolocation>>
    /\ UNCHANGED <<appState, pairState, onMapClickHandler, mapsStore, pairsStore, saves,
                   originWrites, clicks, calVars, modelVars, tfVars, run>>

\* stopWatchingPosition()
StopWatchingPosition ==
    /\ run = "gps"
    /\ IF watchId # Null /\ geolocation.supported
       THEN /\ geolocation' = [geolocation EXCEPT !.watches = @ \ {watchId}]
            /\ watchId' = Null
       ELSE UNCHANGED <<watchId, geolocation>>
    /\ appRet' = Ran("stopWatchingPosition", "undefined")
    /\ UNCHANGED <<appState, pairState, onMapClickHandler, mapsStore, pairsStore, saves,
                   originWrites, clicks, calVars, modelVars, tfVars, run>>

NextApp ==
    \/ SetCurrentMap
    \/ EnterPairMode
    \/ ExitPairMode
    \/ HandleTabClick
    \/ MapClick
    \/ UseMyPosition
    \/ ConfirmAndSavePair
    \/ GetMapResolved
    \/ UpdateMapResolved
    \/ AddResolved

SpecApp == InitApp /\ [][NextApp]_vars


NextGps == StartWatchingPosition \/ StopWatchingPosition

SpecGps == InitGps /\ [][NextGps]_vars

-----------------------------------------------------------------------------
(* All five programs *)

Init == InitCal \/ InitModel \/ InitTransform \/ InitApp \/ InitGps

Next == NextCal \/ NextModel \/ NextTransform \/ NextApp \/ NextGps

Spec == Init /\ [][Next]_vars

-----------------------------------------------------------------------------
(* Properties of calibrate (CommonJS robust.js) *)

\* The class for a pair count when none is requested: 2 -> similarity,
\* 3 -> affine, 4 or more -> homography
ClassByCount(n) ==
    CASE n = 2  -> "similarity"
      [] n = 3  -> "affine"
      [] n >= 4 -> "homography"

\* The caller named one of the three model classes in opts.modelType.
Requested == run = "calibrate" /\ opts.modelType \in Kinds

\* ransac has been entered.
RansacRan == \E n \in 1..Len(calls) : calls[n] = "ransac"

IrlsRan == \E n \in 1..Len(calls) : calls[n] = "irls"

\* An error whose message says 'Insufficient pairs'
IsInsufficientPairs(msg) == msg \in {"Insufficient pairs", "Insufficient pairs for model"}

\* Every model calibrate has held so far is of class t.
UsesOnly(t) ==
    /\ modelType = t
    /\ bestModel # NoModel => bestModel.type = t
    /\ ransacModel # NoModel => ransacModel.type = t
    /\ pc = "done" => result.model.type = t

C3_RefitFailureRetained ==
    (/\ run = "calibrate"
     /\ IrlsRan
     /\ IsThrown(COMPUTE(modelType, bestInliers,
                         HuberWeights(bestInliers, ransacModel, Delta(opts)))))
    => (pc = "done" /\ result.model = ransacModel)

\* C4 as stated: the consensus set of ransac's best model holds exactly the
\* pairs whose residual is strictly below the threshold.
C4_StrictlyBelowThreshold ==
    (run = "calibrate" /\ bestModel # NoModel) =>
        bestInliers =
            SelectSeq(pairs, LAMBDA p :
                RLt(distance(applyTransform(bestModel, p.world).at, p.pixel),
                    Threshold(opts)))

\* C6: the residuals calibrate returns have one entry per input pair, in
\* input order, each the distance between the pair's pixel and the returned
\* model applied to its world point; the pairs ransac rejected are included.
C6_ResidualsForAllPairs ==
    (run = "calibrate" /\ pc = "done") =>
        /\ Len(result.residuals) = Len(pairs)
        /\ \A n \in 1..Len(pairs) :
              result.residuals[n] =
                  distance(applyTransform(result.model, pairs[n].world).at, pairs[n].pixel)

\* C6's case: calibrate returned, ransac had rejected a pair, and the
\* residual of a rejected pair is in the result.
C6_Witness ==
    /\ run = "calibrate"
    /\ pc = "done"
    /\ Len(bestInliers) < Len(pairs)
    /\ \E n \in 1..Len(pairs) :
          /\ \A m \in 1..Len(bestInliers) : bestInliers[m] # pairs[n]
          /\ RGt(result.residuals[n], R(0))

\* C2: a sample whose fit fails is skipped and sampling goes on to the end of
\* the budget; ransac fails ('RANSAC failed' from the CommonJS ransac, a
\* false fit() through the ES-module ransac) exactly when no sample of the
\* budget produced a model.
C2_FailsIffNoSampleFits ==
    /\ (run = "calibrate" /\ pc = "ransac") => (error = "" /\ i <= Samples(opts))
    /\ (run = "calibrate" /\ RansacRan /\ pc # "ransac") =>
          /\ i = Samples(opts)
          /\ error = "RANSAC failed" <=> produced = 0
    /\ (run = "model" /\ ret.call = "fit" /\ Len(activePairs) >= 2 /\ HasGeo(activePairs)) =>
          (ret.value = "false" <=> fitSamples.fitted = 0)

\* C2's case: a sample of calibrate's ransac failed, a later one produced a
\* model, and calibrate returned.
C2_Witness ==
    /\ run = "calibrate"
    /\ pc = "done"
    /\ lastFit = "model"
    /\ 0 < produced
    /\ produced < i

-----------------------------------------------------------------------------
(* Properties of the refinement *)

\* C5 as stated: the refinement is one weighted re-fit of the requested
\* class on the inliers, with the Huber weights (1 when |r| <= delta, else
\* delta/|r|) of the residuals against the ransac model: calibrate returns
\* that re-fit, and a fit() that got a model from ransac has made exactly one
\* weighted re-fit, whatever the class.
C5_OneWeightedRefit ==
    /\ (run = "calibrate" /\ pc = "done") =>
          result.model =
              COMPUTE(modelType, bestInliers,
                      Tup([n \in 1..Len(bestInliers) |->
                            LET r == distance(applyTransform(ransacModel,
                                                             bestInliers[n].world).at,
                                              bestInliers[n].pixel)
                            IN  IF RLe(RAbs(r), Delta(opts)) THEN R(1)
                                ELSE RDiv(Delta(opts), RAbs(r))]))
    /\ (run = "model" /\ ret.call = "fit" /\ ret.value # "false") => refits = 1

-----------------------------------------------------------------------------
(* Properties of the choice of the model class *)

\* C7: with no model type requested the class follows from the pair count
\* alone, the same way in computeTransform, calibrate and
\* CalibrationModel.fit: 2 pairs -> similarity, 3 -> affine, 4 or more ->
\* homography.
C7_ClassChosenByCount ==
    /\ (/\ run = "transform"
        /\ tfCall.fn = "computeTransform"
        /\ tfResult # Pending
        /\ Len(tfCall.pairs) >= 2
        /\ ~IsThrown(tfResult))
       => tfResult.type = ClassByCount(Len(tfCall.pairs))
    /\ (run = "calibrate" /\ opts.modelType = "" /\ Len(pairs) >= 2 /\ pc # "start") =>
          /\ modelType = ClassByCount(Len(pairs))
          /\ pc = "done" => result.model.type = ClassByCount(Len(pairs))
    /\ (run = "model" /\ ret.call = "fit" /\ Len(activePairs) >= 2 /\ HasGeo(activePairs)) =>
          fitKind = ClassByCount(Len(activePairs))

\* C7's case: fit() was given 3 pairs, chose the affine class and fitted it.
C7_Witness ==
    /\ run = "model"
    /\ ret = Returned("fit", "true")
    /\ Len(activePairs) = 3
    /\ fitKind = "affine"

\* C8: with fewer than 2 pairs no model is fitted: calibrate throws before it
\* selects a class or samples, also when a class is requested; computeTransform
\* throws 'Insufficient pairs'; fit() returns false and transform, inliers,
\* tpsRefiner and rmse stay as the constructor left them.
C8_FewerThanTwoPairsFail ==
    /\ (run = "calibrate" /\ Len(pairs) < 2 /\ pc # "start") =>
          /\ pc = "threw"
          /\ modelType = ""
          /\ ~RansacRan
          /\ i = 0
          /\ result = NoResult
    /\ (/\ run = "transform"
        /\ tfCall.fn = "computeTransform"
        /\ tfResult # Pending
        /\ Len(tfCall.pairs) < 2)
       => tfResult = Threw("Insufficient pairs")
    /\ (run = "model" /\ Len(activePairs) < 2) =>
          /\ ret.call = "fit" => ret.value = "false"
          /\ transform = Null
          /\ inliers = <<>>
          /\ tpsRefiner = Null
          /\ rmse = Null

\* C8's case: fit() was called on a model holding one pair.
C8_Witness ==
    /\ run = "model"
    /\ Len(activePairs) = 1
    /\ ret = Returned("fit", "false")

-----------------------------------------------------------------------------
(* Properties of applyTransform *)

\* a*x + b*y + c
Lin(a, x, b, y, c) == RAdd(RAdd(RMul(a, x), RMul(b, y)), c)

\* C9: applyTransform evaluates the formula of the model's tag for each of the
\* tags similarity, affine and homography, and throws 'Unknown model type'
\* for every other tag; it has no default result.
C9_UnknownTypeThrows ==
    (run = "transform" /\ tfCall.fn = "applyTransform" /\ tfResult # Pending) =>
        LET m == tfCall.model
            x == tfCall.point[1]
            y == tfCall.point[2]
        IN  CASE m.type = "similarity" ->
                   tfResult = Point(<<Lin(m.a, x, RNeg(m.b), y, m.tx),
                                      Lin(m.b, x, m.a, y, m.ty)>>)
              [] m.type = "affine" ->
                   tfResult = Point(<<Lin(m.a, x, m.b, y, m.tx),
                                      Lin(m.c, x, m.d, y, m.ty)>>)
              [] m.type = "homography" ->
                   tfResult = Point(<<RDiv(Lin(m.h[1], x, m.h[2], y, m.h[3]),
                                           Lin(m.h[7], x, m.h[8], y, R(1))),
                                      RDiv(Lin(m.h[4], x, m.h[5], y, m.h[6]),
                                           Lin(m.h[7], x, m.h[8], y, R(1)))>>)
              [] OTHER -> tfResult = Threw("Unknown model type")

\* C9's case: applyTransform was called with a tag it has no case for.
C9_Witness ==
    /\ run = "transform"
    /\ tfCall.fn = "applyTransform"
    /\ tfCall.model.type \notin Kinds
    /\ tfResult = Threw("Unknown model type")

-----------------------------------------------------------------------------
(* Properties of the TPS refinement *)

\* The refiner attached to the model holds no fitted spline.
TpsFitFailed == tpsRefiner # Null /\ tpsRefiner.weights = Null

\* C10 as stated: enableTPS never throws, and when the TPS fit fails the
\* model is left without TPS: no unfitted refiner stays attached, and the
\* stored rmse is that of the base transform alone.
C10_TpsFailureNotFatal ==
    (run = "model" /\ ret.call = "enableTPS") =>
        /\ ret.value # "threw"
        /\ ~TpsFitFailed
        /\ (tpsRefiner = Null /\ rmse # Null) => rmse.warp = Null

-----------------------------------------------------------------------------
(* Properties of the projections and of the model's fields *)

\* C11: a projection asked for while no base transform is fitted, or while
\* the origin is unset, fails in both directions: the method returns null,
\* the value it documents for "no result", and never a point (neither a
\* coordinate nor a stand-in for one).  A fitted transform implies a set
\* origin, so projectPixelToEnu, which reads only the transform, never
\* projects with the origin unset.
C11_UnfittedProjectionFails ==
    run = "model" =>
        /\ (ret.call = "projectLatLonToPixel" /\ (transform = Null \/ enuOrigin = Null)) =>
              ret.value = "null" /\ ret.out = Null
        /\ (ret.call = "projectPixelToEnu" /\ transform = Null) =>
              ret.value = "null" /\ ret.out = Null
        /\ transform # Null => enuOrigin # Null

\* C11's case: pairs were added, no fit was made, and a geodetic position was
\* projected.
C11_Witness ==
    /\ run = "model"
    /\ ret.call = "projectLatLonToPixel"
    /\ enuOrigin # Null
    /\ transform = Null
    /\ ret.out = Null

C13_EnableGuarded ==
    [][(run = "model" /\ ret'.call = "enableTPS" /\ (transform = Null \/ Len(inliers) < 3)) =>
         /\ ret'.value = "undefined"
         /\ UNCHANGED <<transform, tpsRefiner, inliers, rmse>>]_vars

\* C13's case: enableTPS was called on a model fitted with 2 inliers.
C13_Witness ==
    /\ run = "model"
    /\ ret = Returned("enableTPS", "undefined")
    /\ transform # Null
    /\ Len(inliers) = 2
    /\ tpsRefiner = Null

\* C14: what projectLatLonToPixel returned is what it returns for the same
\* transform, origin and position with no refiner attached.
C14_InverseIgnoresTps ==
    (run = "model" /\ ret.call = "projectLatLonToPixel") =>
        ret.out = projectLatLonToPixel(transform, Null, enuOrigin, ret.arg)

\* C14's case: a position was projected to a pixel by a model with a fitted
\* refiner attached.
C14_Witness ==
    /\ run = "model"
    /\ ret.call = "projectLatLonToPixel"
    /\ ret.value = "point"
    /\ tpsRefiner # Null
    /\ tpsRefiner.weights # Null

\* The geodetic coordinate of the first pair of ps that has one
RECURSIVE FirstGeodetic(_, _)
FirstGeodetic(ps, n) ==
    IF n > Len(ps) THEN Null
    ELSE IF ps[n].wgs84 # Null THEN ps[n].wgs84
    ELSE FirstGeodetic(ps, n + 1)

\* C15: in every state the origin is the geodetic coordinate of the first
\* added pair that has one, and unset while there is none: no later addPair
\* and no fit, enableTPS or disableTPS changes it.
C15_OriginIsFirstGeodetic ==
    run = "model" => enuOrigin = FirstGeodetic(modelPairs, 1)

\* C15's case: the first pair had no geodetic coordinate, the second gave the
\* origin and a later one has another coordinate.
C15_Witness ==
    /\ run = "model"
    /\ Len(modelPairs) >= 3
    /\ modelPairs[1].wgs84 = Null
    /\ enuOrigin = modelPairs[2].wgs84
    /\ modelPairs[3].wgs84 # enuOrigin

-----------------------------------------------------------------------------
(* Properties of the random source and of the outlier scenarios *)

\* The subset every sample of calibrate draws when opts.rng is a constant
FixedSubset ==
    pickSubset(pairs, modelType, [k \in 1..(Len(pairs) - 1) |-> opts.rng[1]])

\* C16 as stated: the robust fit takes its randomness from the injected
\* source alone.  For calibrate with a constant rng the sample, the consensus
\* set, the re-fit, the refined model and the residuals are the functions of
\* pairs and opts written here; for CalibrationModel.fit, whose ransac takes
\* no random source, every run on the same pairs returns the same model and
\* inliers.
C16_SameRngSameResult ==
    /\ (run = "calibrate" /\ opts.rng # <<>> /\ pc \in {"irls", "done"}) =>
          /\ bestModel = compute(modelType, FixedSubset)
          /\ bestInliers = Inliers(pairs, bestModel, Threshold(opts))
          /\ ransacModel = COMPUTE(modelType, bestInliers, <<>>)
          /\ pc = "done" =>
                /\ result.model = irls(bestInliers, ransacModel, modelType, opts)
                /\ result.residuals = Residuals(pairs, result.model)
    /\ (run = "model" /\ Len(activePairs) >= 2 /\ HasGeo(activePairs)) =>
          \A a, b \in ransacRuns(EnuPairs(activePairs, enuOrigin), mathSvd) :
              a.result = b.result

\* The pair lists of 5 pairs of which 4 follow one affine map and 1, at the
\* index given, is a gross outlier
FiveWithOutlier ==
    { [pairs |-> RobustTestPairs, outlier |-> 5], [pairs |-> OutlierLastPairs, outlier |-> 5],
      [pairs |-> OutlierFirstPairs, outlier |-> 1] }

\* calibrate has returned or thrown
Ended == pc \in {"done", "threw"}

\* The returned model maps the world point of pair n to within 1e-3 of its pixel.
Reproduces(n) ==
    RLt(distance(applyTransform(result.model, pairs[n].world).at, pairs[n].pixel),
        Rat(1, 1000))

\* calibrate returned a model that reproduces every pair but the k-th, and
\* reported a residual above 30 for the k-th.
RejectsOnly(k) ==
    /\ pc = "done"
    /\ \A n \in 1..Len(pairs) : n # k => Reproduces(n)
    /\ RGt(result.residuals[k], R(30))

\* C17 as stated: for 5 pairs, 4 of one affine map and 1 gross outlier at
\* any place of the list, calibrate with rng always 0.99 returns a model that
\* reproduces the 4 and reports a residual above 30 for the outlier.
C17_OutlierAnywhere ==
    \A sc \in FiveWithOutlier :
        (run = "calibrate" /\ pairs = sc.pairs /\ opts = Defaults("") /\ Ended) =>
            RejectsOnly(sc.outlier)

\* C17 amended: the same when the outlier comes after the first 4 pairs of
\* the list, which are the sample that rng always 0.99 draws.
C17_OutlierAfterSample ==
    \A sc \in FiveWithOutlier :
        (/\ run = "calibrate"
         /\ pairs = sc.pairs
         /\ sc.outlier > MIN_PAIRS("homography")
         /\ opts = Defaults("")
         /\ Ended)
        => RejectsOnly(sc.outlier)

\* C17's case: calibrate has returned for the pairs of robust.test.js after
\* its 150 samples, with the 4 consistent pairs as consensus set.
C17_Witness ==
    /\ run = "calibrate"
    /\ pairs = RobustTestPairs
    /\ opts = Defaults("")
    /\ pc = "done"
    /\ i = DefaultSamples
    /\ bestInliers = SubSeq(pairs, 1, 4)

\* The 4 pairs of C18, in either unit of the world coordinates
IsFourPairs == pairs \in {FourPairs, FourPairsWorldTenth}

\* The returned residuals are below 1e-3 on the first 3 pairs and above 30
\* on the 4th.
FourthRejected ==
    /\ pc = "done"
    /\ \A n \in 1..3 : RLt(result.residuals[n], Rat(1, 1000))
    /\ RGt(result.residuals[4], R(30))

\* C18 as stated: calibrate on the 4 pairs, no model type requested.
C18_FourPairsByCount ==
    (run = "calibrate" /\ IsFourPairs /\ opts.modelType = "" /\ Ended) => FourthRejected

\* C18 amended: calibrate on the 4 pairs with the affine class requested and
\* rng always 0.99, so that the first sample is the first 3 pairs.
C18_FourPairsAffine ==
    (run = "calibrate" /\ IsFourPairs /\ opts = Defaults("affine") /\ Ended) => FourthRejected

\* C18's case: calibrate has returned an affine model for the 4 pairs.
C18_Witness ==
    /\ run = "calibrate"
    /\ pairs = FourPairs
    /\ pc = "done"
    /\ result.model.type = "affine"
    /\ Len(bestInliers) = 3

-----------------------------------------------------------------------------
(* C19: the uncertainty of a fix *)

\* A toPixel call has returned or thrown
ToPixelDone == run = "transform" /\ tfCall.fn = "toPixel" /\ tfResult # Pending

\* sqrt(accuracy^2 + sigmaMap^2), and not below either term
Combines(fix, acc, sigmaMap) ==
    /\ fix.type = "fix"
    /\ fix.sigmaMap = sigmaMap
    /\ fix.sigmaTotal = Sqrt(RAdd(RMul(acc, acc), RMul(sigmaMap, sigmaMap)))
    /\ RLe(sigmaMap, fix.sigmaTotal)
    /\ RLe(acc, fix.sigmaTotal)

\* What toPixel owes for a local RMSE that was returned or thrown
FixFor(res, acc, local) ==
    IF IsThrown(local) THEN res = local ELSE Combines(res, acc, local.value)

\* C19: toPixel throws 'Calibration not set' without a calibration and
\* otherwise returns sigmaTotal = sqrt(accuracy^2 + sigmaMap^2), a missing
\* accuracy counting as 0 and sigmaMap being the local RMSE at the projected
\* pixel, or 0 when the model has no metrics; sigmaTotal is then at least
\* sigmaMap and at least the accuracy.  An exception of localRMSE passes
\* through.
C19_SigmaTotal ==
    ToPixelDone =>
        IF ~tfCall.calibrated THEN tfResult = Threw("Calibration not set")
        ELSE FixFor(tfResult,
                    IF tfCall.accuracy = <<>> THEN R(0) ELSE tfCall.accuracy,
                    IF tfCall.metrics
                    THEN localRMSE(tfCall.model, tfCall.pairs, tfCall.point)
                    ELSE Num(R(0)))

\* C19's case: a fix of accuracy 5 on a model whose metrics report a local
\* RMSE above 0; the total is above both.
C19_Witness ==
    /\ ToPixelDone
    /\ tfCall.metrics
    /\ tfCall.accuracy = R(5)
    /\ tfResult.type = "fix"
    /\ RGt(tfResult.sigmaMap, R(0))
    /\ RGt(tfResult.sigmaTotal, tfResult.sigmaMap)
    /\ RGt(tfResult.sigmaTotal, R(5))

-----------------------------------------------------------------------------
(* C20: an outlier raises the local RMSE *)

\* A localRMSE call has returned a Number
LocalRMSEDone ==
    /\ run = "transform"
    /\ tfCall.fn = "localRMSE"
    /\ tfResult # Pending
    /\ tfResult.type = "number"

\* The residual of a pair under a model, and its weight at px
Residual(model, p) == distance(applyTransform(model, p.world).at, p.pixel)

WeightAt(model, p, px) ==
    RDiv(R(1), RAdd(R(1), distance(px, applyTransform(model, p.world).at)))

RECURSIVE SumTo(_, _)
SumTo(terms, n) == IF n = 0 THEN R(0) ELSE RAdd(SumTo(terms, n - 1), terms[n])

\* sqrt(sum(w_i * r_i^2) / sum(w_i))
WeightedRMSE(model, ps, px) ==
    Sqrt(RDiv(SumTo([n \in 1..Len(ps) |->
                        RMul(WeightAt(model, ps[n], px),
                             RMul(Residual(model, ps[n]), Residual(model, ps[n])))],
                    Len(ps)),
              SumTo([n \in 1..Len(ps) |-> WeightAt(model, ps[n], px)], Len(ps))))

\* The last pair is a noisy outlier of the pairs before it: its residual is
\* above 0 and above the residual of each of them
LastIsOutlier(model, ps) ==
    /\ Len(ps) >= 1
    /\ RGt(Residual(model, ps[Len(ps)]), R(0))
    /\ \A n \in 1..(Len(ps) - 1) : RGt(Residual(model, ps[Len(ps)]), Residual(model, ps[n]))

\* C20: localRMSE of a non-empty pair set is
\* sqrt(sum(w_i * r_i^2) / sum(w_i)) with w_i = 1 / (1 + distance from the
\* query point to the pair's projected point), and when the last pair of the
\* set is a noisy outlier of the others the value is strictly larger than
\* localRMSE of the set without it, at the same query point.
C20_OutlierRaisesRMSE ==
    (LocalRMSEDone /\ Len(tfCall.pairs) >= 1) =>
        /\ tfResult.value = WeightedRMSE(tfCall.model, tfCall.pairs, tfCall.point)
        /\ LastIsOutlier(tfCall.model, tfCall.pairs) =>
               RGt(tfResult.value,
                   localRMSE(tfCall.model,
                             SubSeq(tfCall.pairs, 1, Len(tfCall.pairs) - 1),
                             tfCall.point).value)

\* C20's case: the pairs of the test with the outlier (20, 20) -> (25, 40)
\* after three exact pairs, asked about at (5, 5).
C20_Witness ==
    /\ LocalRMSEDone
    /\ tfCall.pairs = TestPairs
    /\ tfCall.point = Pt(5, 5)
    /\ LastIsOutlier(tfCall.model, tfCall.pairs)
    /\ RGt(tfResult.value, R(0))

-----------------------------------------------------------------------------
(* C21: exact recovery from noiseless pairs *)

\* One of the three fits has returned or thrown for the pairs of a known model
ComputeDone == run = "transform" /\ tfCall.fn = "compute" /\ tfResult # Pending

\* A model that is invertible as a map of the plane
ValidModel(model) ==
    CASE model.type = "similarity" -> model.a # R(0) \/ model.b # R(0)
      [] model.type = "affine"     -> Det2(model.a, model.b, model.c, model.d) # R(0)
      [] model.type = "homography" ->
            det([rows |-> <<SubSeq(model.h, 1, 3), SubSeq(model.h, 4, 6),
                            SubSeq(model.h, 7, 9)>>]) # R(0)

\* The world points of the pairs determine a model of the class: two
\* different points, three points not on a line, or four points of which no
\* three are on a line; and every pixel is finite.
NonDegenerate(t, ps) ==
    LET at(n) == ps[n].world
        N == 1..Len(ps)
    IN  /\ \A n \in N : IsFinite(ps[n].pixel[1]) /\ IsFinite(ps[n].pixel[2])
        /\ CASE t = "similarity" -> \E a, b \in N : at(a) # at(b)
             [] t = "affine"     -> \E a, b, c \in N : ~Collinear(at(a), at(b), at(c))
             [] t = "homography" ->
                   \E four \in SUBSET N :
                       /\ Cardinality(four) = 4
                       /\ \A a, b, c \in four :
                              Cardinality({a, b, c}) = 3 => ~Collinear(at(a), at(b), at(c))

\* The tolerance of a coordinate q: 1e-6, or 1e-4 relative for a homography
Tolerance(t, q) ==
    IF t # "homography" THEN Rat(1, 1000000)
    ELSE IF RLe(RAbs(q), R(1)) THEN Rat(1, 10000)
    ELSE RMul(Rat(1, 10000), RAbs(q))

\* est sends every world point of ps to its pixel, within the tolerance
Recovers(est, t, ps) ==
    \A n \in 1..Len(ps) :
        \A c \in 1..2 :
            RLe(RAbs(RSub(applyTransform(est, ps[n].world).at[c], ps[n].pixel[c])),
                Tolerance(t, ps[n].pixel[c]))

\* C21: for a valid similarity, affine or homography model and at least the
\* minimum count of non-degenerate pairs made by applying it, computeSimilarity,
\* computeAffine or computeHomography returns a model of the class that
\* reproduces the model's output on every pair to within 1e-6 (1e-4 relative
\* for a homography).
C21_ExactRecovery ==
    (/\ ComputeDone
     /\ ValidModel(tfCall.model)
     /\ NonDegenerate(tfCall.model.type, tfCall.pairs)) =>
        /\ ~IsThrown(tfResult)
        /\ tfResult.type = tfCall.model.type
        /\ Recovers(tfResult, tfCall.model.type, tfCall.pairs)

\* C21's case: a homography whose denominator varies was recovered from 5
\* pairs, and an affine map with shear from 4.
C21_Witness ==
    /\ ComputeDone
    /\ ValidModel(tfCall.model)
    /\ NonDegenerate(tfCall.model.type, tfCall.pairs)
    /\ \/ /\ tfCall.model.type = "homography"
          /\ tfCall.model.h[7] = R(1)
          /\ Len(tfCall.pairs) = 5
          /\ tfResult.type = "homography"
          /\ tfResult.h = tfCall.model.h
       \/ /\ tfCall.model.type = "affine"
          /\ tfCall.model.b # tfCall.model.c
          /\ Len(tfCall.pairs) = 4
          /\ tfResult.type = "affine"
          /\ tfResult.b = tfCall.model.b

-----------------------------------------------------------------------------
(* C22: the round trip through the local plane *)

\* A round trip has returned
RoundTripDone == run = "transform" /\ tfCall.fn = "roundTrip" /\ tfResult # Pending

\* The tangent of the angle between two directions less than a quarter turn
\* apart, and the non-finite value for directions further apart
TanBetween(v, w) ==
    IF v[1] * w[1] + v[2] * w[2] <= 0 THEN NaN
    ELSE Rat(Abs(v[1] * w[2] - v[2] * w[1]), v[1] * w[1] + v[2] * w[2])

\* tan(0.0001 degrees) = 1 / 572957.8, taken from above
TanOfFourthDecimal == Rat(1, 572957)

\* tan(3 degrees) = 0.0524: 3 degrees of longitude are 334 km on the equator
TanOfFewHundredKm == Rat(524, 10000)

\* Two angles agree to 4 decimal degrees
SameToFourDecimals(v, w) == RLe(TanBetween(v, w), TanOfFourthDecimal)

\* Point and origin of the call are on one parallel and a few hundred km
\* apart or closer
WithinFewHundredKm ==
    /\ tfCall.point.lat = tfCall.origin.lat
    /\ RLe(TanBetween(tfCall.point.lon, tfCall.origin.lon), TanOfFewHundredKm)

\* C22: for a geodetic point p and an origin o within a few hundred km of
\* each other, unprojectFromEnu(projectToEnu(p, o), o) equals p to 4 decimal
\* degrees in latitude and in longitude.
C22_RoundTrip ==
    (RoundTripDone /\ WithinFewHundredKm) =>
        /\ SameToFourDecimals(tfResult.lat, tfCall.point.lat)
        /\ SameToFourDecimals(tfResult.lon, tfCall.point.lon)

-----------------------------------------------------------------------------
(* C23: the best candidate of the RANSAC loop *)

\* The largest inlier count among the candidates cs
MaxCount(cs) == CHOOSE c \in {Len(cs[n]) : n \in 1..Len(cs)} :
                    \A n \in 1..Len(cs) : Len(cs[n]) <= c

\* The earliest candidate with the largest inlier count
FirstBest(cs) == cs[CHOOSE n \in 1..Len(cs) :
                        /\ Len(cs[n]) = MaxCount(cs)
                        /\ \A e \in 1..(n - 1) : Len(cs[e]) < MaxCount(cs)]

\* C23: in ransac's loop and after it the chosen inlier set is that of the
\* earliest sample with the maximum inlier count among the samples that
\* produced a model (a later candidate replaces the best one only with a
\* strictly larger count); it is empty while no sample produced a model, and
\* the set ransac returns is the chosen one.
C23_FirstMaximum ==
    run = "calibrate" =>
        /\ Len(candidates) = produced
        /\ bestInliers = IF candidates = <<>> THEN <<>> ELSE FirstBest(candidates)
        /\ (bestModel = NoModel) = (bestInliers = <<>>)

\* C23's case: the loop is over, two samples had the maximum count with
\* different inlier sets, and the earlier one is the chosen set.
C23_Witness ==
    /\ run = "calibrate"
    /\ pc \in {"irls", "done"}
    /\ \E e, n \in 1..Len(candidates) :
          /\ e < n
          /\ Len(candidates[e]) = MaxCount(candidates)
          /\ Len(candidates[n]) = MaxCount(candidates)
          /\ candidates[e] # candidates[n]
          /\ bestInliers = candidates[e]

-----------------------------------------------------------------------------
(* C24: sampling without replacement *)

\* pickSubset or getRandomSubset has returned or thrown
SampleDone ==
    /\ run = "transform"
    /\ tfCall.fn \in {"pickSubset", "getRandomSubset"}
    /\ tfResult # Pending

\* The elements of a sequence
Range(seq) == {seq[n] : n \in 1..Len(seq)}

\* C24: for an array of n elements, k <= n and any values of the random
\* source in [0, 1), pickSubset and getRandomSubset return exactly k elements
\* taken from k different positions of the array and leave the array as it
\* was.  (The arrays of the calls hold their own positions 1..n.)
C24_WithoutReplacement ==
    (SampleDone /\ tfCall.k <= Len(tfCall.pairs)) =>
        /\ ~IsThrown(tfResult)
        /\ Len(tfResult.result) = tfCall.k
        /\ Range(tfResult.result) \subseteq 1..Len(tfCall.pairs)
        /\ Cardinality(Range(tfResult.result)) = tfCall.k
        /\ tfResult.arr = tfCall.pairs

\* C24's case: getRandomSubset drew an index that was taken before (two
\* equal values of Math.random) and returned 3 of 4 positions.
C24_Witness ==
    /\ SampleDone
    /\ tfCall.fn = "getRandomSubset"
    /\ Len(tfCall.pairs) = 4
    /\ tfCall.k = 3
    /\ tfCall.rs[1] = tfCall.rs[2]
    /\ Cardinality(Range(tfResult.result)) = 3

-----------------------------------------------------------------------------
(* C25, C26: the refiner and the base transform *)

\* C25: in every state reached by addPair, fit, enableTPS and disableTPS a
\* TPS refiner is attached only if a base transform is present; in
\* particular a fit that fails after enableTPS leaves no refiner attached
\* to a null transform.
C25_RefinerNeedsTransform ==
    (run = "model" /\ tpsRefiner # Null) => transform # Null

\* The refiner enableTPS(lambda) attaches for the transform tf and the
\* inliers inl
RefinerOf(tf, inl, lambda) ==
    RefinerTPS(Tup([n \in 1..Len(inl) |-> inl[n].pixel]),
               Tup([n \in 1..Len(inl) |-> projectPoint(inl[n].enu, inv(tf))]),
               lambda)

\* C26: an attached refiner was computed from the current base transform
\* and the current inliers, and the rmse a successful fit stores is the
\* error of the fitted model with no stale warp in it.
C26_RefinerIsCurrent ==
    (run = "model" /\ tpsRefiner # Null /\ transform # Null) =>
        /\ ~IsThrown(inv(transform))
        /\ \E lambda \in Lambdas : tpsRefiner = RefinerOf(transform, inliers, lambda)
        /\ (ret.call = "fit" /\ ret.value = "true") =>
               rmse \in {getProjectionError(transform, Null, inliers)} \cup
                        {getProjectionError(transform,
                                            RefinerOf(transform, inliers, lambda),
                                            inliers) : lambda \in Lambdas}

-----------------------------------------------------------------------------
(* C27..C30: the application *)

\* C27: for any interleaving of concurrent savePair calls on one map, the
\* map's enuOrigin is written at most once, and the enu of every stored pair
\* is computed relative to the origin stored on the map.
C27_OriginSetOnce ==
    run = "app" =>
        /\ Len(originWrites) <= 1
        /\ \A n \in 1..Len(pairsStore) :
              /\ mapsStore[pairsStore[n].mapId].enuOrigin # Null
              /\ pairsStore[n].enu.origin = mapsStore[pairsStore[n].mapId].enuOrigin.at

\* C28: for any interleaving of confirm clicks with the asynchronous save, no
\* pending pair (the same pixel and the same geodetic position objects) is
\* stored twice, and every stored pair has both sides.
C28_SavedOnce ==
    run = "app" =>
        /\ \A n, k \in 1..Len(pairsStore) :
              (pairsStore[n].pixel = pairsStore[k].pixel
                  /\ pairsStore[n].wgs84 = pairsStore[k].wgs84) => n = k
        /\ \A n \in 1..Len(pairsStore) :
              pairsStore[n].pixel # Null /\ pairsStore[n].wgs84 # Null

\* C29: a map click in pair mode sets the pixel side of the pending pair
\* exactly when the active view is the photo view, and the geodetic side
\* exactly when it is the OSM view, also after a tab switch in pair mode.
C29_ClickFollowsView ==
    (run = "app" /\ appRet.call = "onMapClick") =>
        /\ (appRet.value = "pixel") = (appRet.view = "photo")
        /\ (appRet.value = "wgs84") = (appRet.view = "osm")

\* The watches registered with navigator.geolocation are the one gps.js
\* holds the id of, if any
OneWatch ==
    /\ Cardinality(geolocation.watches) <= 1
    /\ geolocation.watches = IF watchId = Null THEN {} ELSE {watchId}

\* C30: at most one geolocation watch is active at any time;
\* startWatchingPosition returns false and registers nothing when a watch is
\* active or geolocation is unsupported and returns true and registers one
\* otherwise; stopWatchingPosition clears the watch, so that the next
\* startWatchingPosition succeeds.
C30_SingleWatch ==
    /\ [](run = "gps" => OneWatch)
    /\ [][StartWatchingPosition =>
            IF geolocation.supported /\ watchId = Null
            THEN /\ appRet'.value = "true"
                 /\ Cardinality(geolocation'.watches) = Cardinality(geolocation.watches) + 1
            ELSE /\ appRet'.value = "false"
                 /\ geolocation'.watches = geolocation.watches]_vars
    /\ [][StopWatchingPosition => (watchId' = Null /\ geolocation'.watches = {})]_vars

\* C30's case: a watch was started, stopped and started again, and a start
\* while it was active returned false.
C30_Witness ==
    /\ run = "gps"
    /\ watchId = Watch(2)
    /\ geolocation.watches = {Watch(2)}
    /\ appRet.call = "startWatchingPosition"
    /\ appRet.value = "false"

=============================================================================
